---- MODULE Spec2Model ----
(***************************************************************************)
(* Model of natcap.invest.urban_nature_access.                             *)
(*                                                                         *)
(*   Spec     execute() building its task graph while the task executor    *)
(*            runs the tasks that were added.                              *)
(*   SpecOps  the pure per-pixel operators and the decay kernels, applied  *)
(*            to inputs drawn from bounded sets.                           *)
(*   SpecErr  execute() called with an option it does not know.           *)
(*   SpecFail execute() when a task may raise, with fair scheduling.       *)
(***************************************************************************)
EXTENDS Integers, Sequences, FiniteSets, TLC

VARIABLES
    args,       \* the args dict execute() was called with
    pc,         \* position of execute() in its sequence of graph calls
    status,     \* status[i] of the task added by program[i]: "none" before
                \* the call, then "pending", then "done" ("failed" when
                \* the task raised)
    complete,   \* the files that exist completely written
    premature,  \* history: <<task, path>> opened before it was complete
    result      \* SpecOps: the last operator application (inputs and output)
                \* SpecFail: whether execute() was left by an exception

vars == <<args, pc, status, complete, premature, result>>

----------------------------------------------------------------------------
(* Bounds *)

MaxGroups == 2      \* pop_<group> fields in the administrative-unit vector
MaxLucodes == 2     \* rows of the land-cover attribute table
ParallelGroups == 1 \* groups of the runs explored with worker processes

----------------------------------------------------------------------------
(* Module constants *)

RADIUS_OPT_UNIFORM == "radius_uniform"
RADIUS_OPT_GREENSPACE == "radius_per_greenspace_class"
RADIUS_OPT_POP_GROUP == "radius_per_pop_group"

RadiusModes == {RADIUS_OPT_UNIFORM, RADIUS_OPT_GREENSPACE, RADIUS_OPT_POP_GROUP}

\* the keys of kernel_creation_functions
KernelFunctions ==
    {"dichotomy", "exponential", "gaussian", "density", "power"}

\* The pop_<group> field names the vector may carry, in layer schema order.
PopFieldNames == <<"pop_a", "pop_b", "pop_c", "pop_d">>

\* pop_group[4:], trimming the leading 'pop_'
TrimPop(field) == SubSeq(field, 5, Len(field))

\* f'{search_radius_m}' of a float number of meters
FloatStr(r) == <<"100.0", "200.0">>[r \div 100]

\* f'{lucode}' of an integer land-cover code
LucodeStr(c) == <<"1", "2", "3", "4">>[c]

\* Paths execute() receives in args: files that exist before the run.
LulcRasterPath == "in/lulc.tif"
PopulationRasterPath == "in/population.tif"
AoiVectorPath == "in/aois.gpkg"
LulcAttributeTable == "in/lulc_attributes.csv"
PopulationGroupRadiiTable == "in/pop_group_radii.csv"

InputPaths ==
    {LulcRasterPath, PopulationRasterPath, AoiVectorPath, LulcAttributeTable,
     PopulationGroupRadiiTable}

----------------------------------------------------------------------------
(* Paths *)

OutputBaseFiles == {"greenspace_supply", "aois"}

Ext(key) == IF key \in {"aois", "reprojected_aois"} THEN ".gpkg" ELSE ".tif"

\* file_registry[key]: the base file name with the suffix put before the
\* extension, in the output or the intermediate directory.
FileRegistry(a, key) ==
    (IF key \in OutputBaseFiles THEN "output/" ELSE "intermediate/")
        \o key \o a.suffix \o Ext(key)

\* os.path.join(intermediate_dir, f'{stem}{suffix}.tif')
IntermediateTif(a, stem) == "intermediate/" \o stem \o a.suffix \o ".tif"

ProportionalPopulationPath(a, g) == IntermediateTif(a, "population_in_" \o g)

PopGroupProportionPath(a, g) ==
    IntermediateTif(a, "proportion_of_aoi_in_" \o g)

KernelPath(a, r) == IntermediateTif(a, "kernel_" \o FloatStr(r))

DecayedPopulationPath(a, r) ==
    IntermediateTif(a, "decayed_population_within_" \o FloatStr(r))

GreenspacePixelsPath(a) == IntermediateTif(a, "greenspace_area")

GreenspacePopulationRatioPath(a) ==
    IntermediateTif(a, "greenspace_population_ratio")

GreenspacePixelsLucodePath(a, c) ==
    IntermediateTif(a, "greenspace_area_lucode_" \o LucodeStr(c))

GreenspacePopulationRatioLucodePath(a, c) ==
    IntermediateTif(a, "greenspace_population_ratio_lucode_" \o LucodeStr(c))

GreenspaceSupplyLucodePath(a, c) ==
    IntermediateTif(a, "greenspace_supply_lucode_" \o LucodeStr(c))

DecayedPopulationInGroupPath(a, g) ==
    IntermediateTif(a, "decayed_population_in_" \o g)

SumOfDecayedPopulationPath(a) ==
    IntermediateTif(a, "decayed_population_all_groups")

GreenspaceSupplyToGroupPath(a, g) ==
    IntermediateTif(a, "greenspace_supply_to_" \o g)

PerCapGreenspaceBudgetPopGroupPath(a, g) ==
    IntermediateTif(a, "greenspace_budget_" \o g)

GreenspaceSupplyDemandByGroupPath(a, g) ==
    IntermediateTif(a, "greenspace_supply_demand_budget_" \o g)

\* A plausible slip: the group name left out of the file name.
SupplyPopulationGroupPathNoGroup(a, supply_type, g) ==
    IntermediateTif(a, supply_type \o "supplied_population")

\* per-population-group mode: f'{supply_type}supplied_population_{pop_group}'
SupplyPopulationGroupPath(a, supply_type, g) ==
    IntermediateTif(a, supply_type \o "supplied_population_" \o g)

\* shared stage: pop_group is None for the whole population, else trimmed
SupplyPopulationPath(a, supply_type, g) ==
    IF g = "None"
    THEN IntermediateTif(a, supply_type \o "supplied_population")
    ELSE IntermediateTif(a, supply_type \o "supplied_population_" \o TrimPop(g))

SupplyTypes == <<"under", "over">>

----------------------------------------------------------------------------
(* Values execute() derives from args and from the tables *)

\* split_population_fields: the pop_ fields of the reprojected vector
SplitPopulationFields(a) == SubSeq(PopFieldNames, 1, a.num_groups)

NeedsPopGroups(a) ==
    a.search_radius_mode = RADIUS_OPT_POP_GROUP \/ a.aggregate_by_pop_group

\* attr_table[attr_table['greenspace'] == 1] as (lucode, search_radius_m)
LucodeToSearchRadii(a) ==
    SelectSeq([c \in 1..Len(a.attr_table) |->
                  [lucode |-> c,
                   greenspace |-> a.attr_table[c].greenspace,
                   search_radius_m |-> a.attr_table[c].search_radius_m]],
              LAMBDA row: row.greenspace = 1)

RECURSIVE SortedSeq(_)
SortedSeq(S) ==
    IF S = {} THEN <<>>
    ELSE LET m == CHOOSE x \in S: \A y \in S: x <= y
         IN <<m>> \o SortedSeq(S \ {m})

\* search_radii: the set of distinct radii of the selected mode
SearchRadii(a) ==
    IF a.search_radius_mode = RADIUS_OPT_UNIFORM
    THEN {a.search_radius}
    ELSE IF a.search_radius_mode = RADIUS_OPT_GREENSPACE
    THEN {LucodeToSearchRadii(a)[i].search_radius_m:
             i \in 1..Len(LucodeToSearchRadii(a))}
    ELSE {a.pop_group_radii[g]: g \in DOMAIN a.pop_group_radii}

Flatten(ss) ==
    LET RECURSIVE F(_)
        F(i) == IF i > Len(ss) THEN <<>> ELSE ss[i] \o F(i + 1)
    IN F(1)

Range(s) == {s[i]: i \in 1..Len(s)}

----------------------------------------------------------------------------
(* The graph calls of execute(), in program order.  A step is a call of    *)
(* graph.add_task, a join on one task, or the final close-and-join.  The   *)
(* tasks a call depends on are named by the variable (or dict/list slot)   *)
(* of execute() that holds them.                                           *)

K(name, idx) == name \o "[" \o idx \o "]"

AddStep(var, fn, stage, targets, reads, deps) ==
    [op |-> "add", var |-> var, fn |-> fn, stage |-> stage,
     targets |-> targets, reads |-> reads, deps |-> deps]

JoinStep(var) ==
    [op |-> "join", var |-> var, fn |-> "join", stage |-> "groups",
     targets |-> {}, reads |-> {}, deps |-> {var}]

\* execute() leaves with an exception instead of making its next graph call
RaiseStep(exception) ==
    [op |-> "raise", var |-> exception, fn |-> "raise", stage |-> "common",
     targets |-> {}, reads |-> {}, deps |-> {}]

\* execute() itself opens the reprojected vector: load_fields_from_vector
\* (line 466), _geometries_overlap (469), _read_field_from_vector (489)
ReadStep(a, what) ==
    [op |-> "read", var |-> what, fn |-> "execute", stage |-> "groups",
     targets |-> {}, reads |-> {FileRegistry(a, "reprojected_aois")},
     deps |-> {}]

CloseAndJoinStep ==
    [op |-> "close_join", var |-> "graph", fn |-> "join", stage |-> "final",
     targets |-> {}, reads |-> {}, deps |-> {}]

\* lines 414-453
AlignmentSteps(a) ==
    << AddStep("lulc_alignment_task", "warp_raster", "common",
               {FileRegistry(a, "aligned_lulc")}, {LulcRasterPath}, {}),
       AddStep("population_alignment_task", "_resample_population_raster",
               "common",
               {FileRegistry(a, "aligned_population")},
               {PopulationRasterPath}, {}),
       AddStep("aoi_reprojection_task", "_reproject_and_identify", "common",
               {FileRegistry(a, "reprojected_aois")}, {AoiVectorPath},
               {"lulc_alignment_task"}) >>

\* lines 489-527, the body of the loop over split_population_fields
PopGroupLoopBody(a, g) ==
    << ReadStep(a, "_read_field_from_vector"),
       AddStep(K("proportional_population_tasks", g),
               "_reclassify_and_multiply", "groups",
               {ProportionalPopulationPath(a, g)},
               {FileRegistry(a, "aois_ids"),
                FileRegistry(a, "aligned_population")},
               {"aois_rasterization_task", "population_alignment_task"}),
       AddStep(K("pop_group_proportion_tasks", g), "_rasterize_aois",
               "groups",
               {PopGroupProportionPath(a, g)},
               {FileRegistry(a, "aligned_lulc"),
                FileRegistry(a, "reprojected_aois")},
               {"aoi_reprojection_task", "lulc_alignment_task"}) >>

\* the mutation: execute() does not join the reprojection task
PopGroupStepsNoJoin(a) ==
    IF ~NeedsPopGroups(a) THEN <<>>
    ELSE << ReadStep(a, "load_fields_from_vector"),
            ReadStep(a, "_geometries_overlap"),
            AddStep("aois_rasterization_task", "_rasterize_aois", "groups",
                    {FileRegistry(a, "aois_ids")},
                    {FileRegistry(a, "aligned_lulc"),
                     FileRegistry(a, "reprojected_aois")},
                    {"aoi_reprojection_task", "lulc_alignment_task"}) >>
         \o Flatten([i \in 1..Len(SplitPopulationFields(a)) |->
                        PopGroupLoopBody(a, SplitPopulationFields(a)[i])])

\* lines 461-527
PopGroupSteps(a) ==
    IF ~NeedsPopGroups(a) THEN <<>>
    ELSE << JoinStep("aoi_reprojection_task"),
            ReadStep(a, "load_fields_from_vector"),
            ReadStep(a, "_geometries_overlap"),
            AddStep("aois_rasterization_task", "_rasterize_aois", "groups",
                    {FileRegistry(a, "aois_ids")},
                    {FileRegistry(a, "aligned_lulc"),
                     FileRegistry(a, "reprojected_aois")},
                    {"aoi_reprojection_task", "lulc_alignment_task"}) >>
         \o Flatten([i \in 1..Len(SplitPopulationFields(a)) |->
                        PopGroupLoopBody(a, SplitPopulationFields(a)[i])])

\* The dicts filled by the loop above are empty when it did not run.
ProportionalPopulationItems(a) ==
    IF NeedsPopGroups(a) THEN SplitPopulationFields(a) ELSE <<>>

\* the mutation: in the per-class mode one kernel per greenspace code, even
\* when two codes have the same radius
KernelStepsPerCode(a) ==
    LET rows == LucodeToSearchRadii(a)
        radii == IF a.search_radius_mode = RADIUS_OPT_GREENSPACE
                 THEN [i \in 1..Len(rows) |-> rows[i].search_radius_m]
                 ELSE SortedSeq(SearchRadii(a))
    IN [i \in 1..Len(radii) |->
           AddStep(K("kernel_tasks", FloatStr(radii[i])),
                   "_create_kernel_raster", "kernel",
                   {KernelPath(a, radii[i])}, {}, {})]

\* lines 558-574
KernelSteps(a) ==
    LET radii == SortedSeq(SearchRadii(a))
    IN [i \in 1..Len(radii) |->
           AddStep(K("kernel_tasks", FloatStr(radii[i])),
                   "_create_kernel_raster", "kernel",
                   {KernelPath(a, radii[i])}, {}, {})]

\* lines 577-641
UniformSteps(a) ==
    LET r == a.search_radius
    IN << AddStep("decayed_population_task",
                  "_convolve_and_set_lower_bound", "uniform",
                  {DecayedPopulationPath(a, r)},
                  {FileRegistry(a, "aligned_population"), KernelPath(a, r)},
                  {K("kernel_tasks", FloatStr(r)),
                   "population_alignment_task"}),
          AddStep("greenspace_reclassification_task",
                  "_reclassify_greenspace_area", "uniform",
                  {GreenspacePixelsPath(a)},
                  {FileRegistry(a, "aligned_lulc"), LulcAttributeTable},
                  {"lulc_alignment_task"}),
          AddStep("greenspace_population_ratio_task",
                  "_calculate_greenspace_population_ratio", "uniform",
                  {GreenspacePopulationRatioPath(a)},
                  {GreenspacePixelsPath(a), DecayedPopulationPath(a, r)},
                  {"greenspace_reclassification_task",
                   "decayed_population_task"}),
          AddStep("greenspace_supply_task",
                  "_convolve_and_set_lower_bound", "uniform",
                  {FileRegistry(a, "greenspace_supply")},
                  {GreenspacePopulationRatioPath(a), KernelPath(a, r)},
                  {K("kernel_tasks", FloatStr(r)),
                   "greenspace_population_ratio_task"}) >>

\* lines 649-665, one decayed population per distinct radius
GreenspaceDecayedSteps(a) ==
    LET radii == SortedSeq(SearchRadii(a))
    IN [i \in 1..Len(radii) |->
           AddStep(K("decayed_population_tasks", FloatStr(radii[i])),
                   "_convolve_and_set_lower_bound", "class",
                   {DecayedPopulationPath(a, radii[i])},
                   {FileRegistry(a, "aligned_population"),
                    KernelPath(a, radii[i])},
                   {K("kernel_tasks", FloatStr(radii[i])),
                    "population_alignment_task"})]

\* the mutation: every partial supply is convolved with the kernel of the
\* smallest radius
GreenspaceLoopBodyOneKernel(a, c, r) ==
    LET r0 == SortedSeq(SearchRadii(a))[1]
    IN << AddStep("greenspace_reclassification_task",
                  "_reclassify_greenspace_area", "class",
                  {GreenspacePixelsLucodePath(a, c)},
                  {FileRegistry(a, "aligned_lulc"), LulcAttributeTable},
                  {"lulc_alignment_task"}),
          AddStep("greenspace_population_ratio_task",
                  "_calculate_greenspace_population_ratio", "class",
                  {GreenspacePopulationRatioLucodePath(a, c)},
                  {GreenspacePixelsLucodePath(a, c),
                   DecayedPopulationPath(a, r)},
                  {"greenspace_reclassification_task",
                   K("decayed_population_tasks", FloatStr(r))}),
          AddStep(K("partial_greenspace_supply_tasks", LucodeStr(c)),
                  "convolve_2d", "class",
                  {GreenspaceSupplyLucodePath(a, c)},
                  {GreenspacePopulationRatioLucodePath(a, c),
                   KernelPath(a, r0)},
                  {K("kernel_tasks", FloatStr(r0)),
                   "greenspace_population_ratio_task"}) >>

\* lines 669-720, the body of the loop over lucode_to_search_radii
GreenspaceLoopBody(a, c, r) ==
    << AddStep("greenspace_reclassification_task",
               "_reclassify_greenspace_area", "class",
               {GreenspacePixelsLucodePath(a, c)},
               {FileRegistry(a, "aligned_lulc"), LulcAttributeTable},
               {"lulc_alignment_task"}),
       AddStep("greenspace_population_ratio_task",
               "_calculate_greenspace_population_ratio", "class",
               {GreenspacePopulationRatioLucodePath(a, c)},
               {GreenspacePixelsLucodePath(a, c), DecayedPopulationPath(a, r)},
               {"greenspace_reclassification_task",
                K("decayed_population_tasks", FloatStr(r))}),
       AddStep(K("partial_greenspace_supply_tasks", LucodeStr(c)),
               "convolve_2d", "class",
               {GreenspaceSupplyLucodePath(a, c)},
               {GreenspacePopulationRatioLucodePath(a, c), KernelPath(a, r)},
               {K("kernel_tasks", FloatStr(r)),
                "greenspace_population_ratio_task"}) >>

\* lines 644-732
GreenspaceSteps(a) ==
    LET rows == LucodeToSearchRadii(a)
    IN GreenspaceDecayedSteps(a)
       \o Flatten([i \in 1..Len(rows) |->
                      GreenspaceLoopBody(a, rows[i].lucode,
                                         rows[i].search_radius_m)])
       \o << AddStep("greenspace_supply_task", "_sum_rasters", "class",
                     {FileRegistry(a, "greenspace_supply")},
                     {GreenspaceSupplyLucodePath(a, rows[i].lucode):
                         i \in 1..Len(rows)},
                     {K("partial_greenspace_supply_tasks",
                        LucodeStr(rows[i].lucode)): i \in 1..Len(rows)}) >>

\* the mutation: the group's decayed population comes from convolve_2d
DecayedPopulationInGroupStepRaw(a, g) ==
    AddStep(K("decayed_population_in_group_tasks", g),
            "convolve_2d", "group",
            {DecayedPopulationInGroupPath(a, g)},
            {ProportionalPopulationPath(a, g),
             KernelPath(a, a.pop_group_radii[g])},
            {K("kernel_tasks", FloatStr(a.pop_group_radii[g])),
             "population_alignment_task"})

\* lines 754-775, the body of the first loop over split_population_fields
DecayedPopulationInGroupStep(a, g) ==
    AddStep(K("decayed_population_in_group_tasks", g),
            "_convolve_and_set_lower_bound", "group",
            {DecayedPopulationInGroupPath(a, g)},
            {ProportionalPopulationPath(a, g),
             KernelPath(a, a.pop_group_radii[g])},
            {K("kernel_tasks", FloatStr(a.pop_group_radii[g])),
             "population_alignment_task"})

\* lines 895-923, the two under/over tasks of one population group
SupplyPopulationGroupStep(a, g, supply_type) ==
    AddStep(K("supply_population_tasks", supply_type \o "," \o g),
            "_filter_population", "group",
            {SupplyPopulationGroupPath(a, supply_type, g)},
            {ProportionalPopulationPath(a, g),
             PerCapGreenspaceBudgetPopGroupPath(a, g)},
            {"per_cap_greenspace_budget_pop_group_task",
             K("proportional_population_tasks", g)})

\* lines 819-923, the body of the loop over proportional_population_paths
PopGroupModeLoopBody(a, g) ==
    << AddStep(K("greenspace_supply_by_group_tasks", g), "convolve_2d",
               "group",
               {GreenspaceSupplyToGroupPath(a, g)},
               {FileRegistry(a, "greenspace_population_ratio"),
                KernelPath(a, a.pop_group_radii[g])},
               {K("kernel_tasks", FloatStr(a.pop_group_radii[g])),
                "greenspace_population_ratio_task"}),
       AddStep("per_cap_greenspace_budget_pop_group_task",
               "_greenspace_budget_op", "group",
               {PerCapGreenspaceBudgetPopGroupPath(a, g)},
               {GreenspaceSupplyToGroupPath(a, g)},
               {K("greenspace_supply_by_group_tasks", g)}),
       AddStep(K("greenspace_supply_demand_by_group_tasks", g),
               "_greenspace_supply_demand_op", "group",
               {GreenspaceSupplyDemandByGroupPath(a, g)},
               {PerCapGreenspaceBudgetPopGroupPath(a, g),
                ProportionalPopulationPath(a, g)},
               {"per_cap_greenspace_budget_pop_group_task",
                K("proportional_population_tasks", g)}) >>
    \o [i \in 1..Len(SupplyTypes) |->
           SupplyPopulationGroupStep(a, g, SupplyTypes[i])]

\* lines 735-980
PopGroupModeSteps(a) ==
    LET groups == SplitPopulationFields(a)
        G == Range(groups)
    IN << AddStep("greenspace_reclassification_task",
                  "_reclassify_greenspace_area", "group",
                  {GreenspacePixelsPath(a)},
                  {FileRegistry(a, "aligned_lulc"), LulcAttributeTable},
                  {"lulc_alignment_task"}) >>
       \o [i \in 1..Len(groups) |-> DecayedPopulationInGroupStep(a, groups[i])]
       \o << AddStep("sum_of_decayed_population_task", "_sum_rasters", "group",
                     {SumOfDecayedPopulationPath(a)},
                     {DecayedPopulationInGroupPath(a, g): g \in G},
                     {K("decayed_population_in_group_tasks", g): g \in G}),
             AddStep("greenspace_population_ratio_task",
                     "_calculate_greenspace_population_ratio", "group",
                     {FileRegistry(a, "greenspace_population_ratio")},
                     {GreenspacePixelsPath(a), SumOfDecayedPopulationPath(a)},
                     {"greenspace_reclassification_task",
                      "sum_of_decayed_population_task"}) >>
       \o Flatten([i \in 1..Len(groups) |->
                      PopGroupModeLoopBody(a, groups[i])])
       \o << AddStep("greenspace_supply_task", "_weighted_sum", "group",
                     {FileRegistry(a, "greenspace_supply")},
                     {GreenspaceSupplyToGroupPath(a, g): g \in G},
                     {K("greenspace_supply_by_group_tasks", g): g \in G}
                     \cup {K("pop_group_proportion_tasks", g): g \in G}),
             AddStep("greenspace_supply_demand_budget_task", "_sum_rasters",
                     "group",
                     {FileRegistry(a, "greenspace_supply_demand_budget")},
                     {GreenspaceSupplyDemandByGroupPath(a, g): g \in G},
                     {K("greenspace_supply_demand_by_group_tasks", g):
                         g \in G}),
             AddStep("aggregate_task",
                     "_supply_demand_vector_for_pop_groups", "group",
                     {FileRegistry(a, "aois")},
                     {FileRegistry(a, "reprojected_aois")}
                     \cup {GreenspaceSupplyDemandByGroupPath(a, g): g \in G}
                     \cup {ProportionalPopulationPath(a, g): g \in G}
                     \cup {SupplyPopulationGroupPath(a, "under", g): g \in G}
                     \cup {SupplyPopulationGroupPath(a, "over", g): g \in G},
                     {"aoi_reprojection_task"}
                     \cup {K("greenspace_supply_demand_by_group_tasks", g):
                              g \in G}
                     \cup {K("proportional_population_tasks", g): g \in G}
                     \cup {K("supply_population_tasks", "under," \o g):
                              g \in G}
                     \cup {K("supply_population_tasks", "over," \o g):
                              g \in G}) >>

\* lines 1028-1030: (None, aligned population) and, when aggregating by
\* population group, every (pop_group, proportional population path)
PopPaths(a) ==
    <<"None">> \o (IF a.aggregate_by_pop_group
                   THEN ProportionalPopulationItems(a) ELSE <<>>)

\* lines 1035-1065, one under/over task of the shared stage
SupplyPopulationStep(a, g, supply_type) ==
    AddStep(K("supply_population_tasks", supply_type \o "," \o g),
            "_filter_population", "shared",
            {SupplyPopulationPath(a, supply_type, g)},
            {IF g = "None" THEN FileRegistry(a, "aligned_population")
                           ELSE ProportionalPopulationPath(a, g),
             FileRegistry(a, "greenspace_budget")},
            {"greenspace_supply_demand_task", "population_alignment_task"}
            \cup {K("proportional_population_tasks", h):
                     h \in Range(ProportionalPopulationItems(a))})

\* lines 984-1089
SharedSteps(a) ==
    LET pops == PopPaths(a)
    IN << AddStep("per_capita_greenspace_budget_task",
                  "_greenspace_budget_op", "shared",
                  {FileRegistry(a, "greenspace_budget")},
                  {FileRegistry(a, "greenspace_supply")},
                  {"greenspace_supply_task"}),
          AddStep("greenspace_supply_demand_task",
                  "_greenspace_supply_demand_op", "shared",
                  {FileRegistry(a, "greenspace_supply_demand_budget")},
                  {FileRegistry(a, "greenspace_budget"),
                   FileRegistry(a, "aligned_population")},
                  {"per_capita_greenspace_budget_task",
                   "population_alignment_task"}) >>
       \o Flatten([i \in 1..Len(pops) |->
                      [j \in 1..Len(SupplyTypes) |->
                          SupplyPopulationStep(a, pops[i], SupplyTypes[j])]])
       \o << AddStep("aggregate_task",
                     "_supply_demand_vector_for_single_raster_modes",
                     "shared",
                     {FileRegistry(a, "aois")},
                     {FileRegistry(a, "reprojected_aois"),
                      FileRegistry(a, "greenspace_supply_demand_budget"),
                      FileRegistry(a, "aligned_population"),
                      FileRegistry(a, "undersupplied_population"),
                      FileRegistry(a, "oversupplied_population")},
                     {"population_alignment_task", "aoi_reprojection_task",
                      "greenspace_supply_demand_task"}
                     \cup {K("supply_population_tasks",
                             SupplyTypes[j] \o "," \o pops[i]):
                              i \in 1..Len(pops), j \in 1..Len(SupplyTypes)})
          >>

\* the mutation: the shared stage follows every branch
ModeStepsAlwaysShared(a) ==
    IF a.search_radius_mode = RADIUS_OPT_UNIFORM
    THEN UniformSteps(a) \o SharedSteps(a)
    ELSE IF a.search_radius_mode = RADIUS_OPT_GREENSPACE
    THEN GreenspaceSteps(a) \o SharedSteps(a)
    ELSE PopGroupModeSteps(a) \o SharedSteps(a)

\* lines 577, 644, 735, 984: the branch of the selected mode
ModeSteps(a) ==
    IF a.search_radius_mode = RADIUS_OPT_UNIFORM
    THEN UniformSteps(a) \o SharedSteps(a)
    ELSE IF a.search_radius_mode = RADIUS_OPT_GREENSPACE
    THEN GreenspaceSteps(a) \o SharedSteps(a)
    ELSE PopGroupModeSteps(a)

\* The positional arguments of every call of
\* _calculate_greenspace_population_ratio(greenspace_area_raster_path,
\* convolved_population_raster_path, target_ratio_raster_path):
\* lines 616-619, 690-693 and 793-796
RatioArgs(a) ==
    IF a.search_radius_mode = RADIUS_OPT_UNIFORM
    THEN << [greenspace_area |-> GreenspacePixelsPath(a),
             convolved_population |-> DecayedPopulationPath(a, a.search_radius),
             target |-> GreenspacePopulationRatioPath(a)] >>
    ELSE IF a.search_radius_mode = RADIUS_OPT_GREENSPACE
    THEN LET rows == LucodeToSearchRadii(a)
         IN [i \in 1..Len(rows) |->
                [greenspace_area |->
                     GreenspacePixelsLucodePath(a, rows[i].lucode),
                 convolved_population |->
                     DecayedPopulationPath(a, rows[i].search_radius_m),
                 target |->
                     GreenspacePopulationRatioLucodePath(a, rows[i].lucode)]]
    ELSE << [greenspace_area |-> GreenspacePixelsPath(a),
             convolved_population |-> SumOfDecayedPopulationPath(a),
             target |-> FileRegistry(a, "greenspace_population_ratio")] >>

\* The keyword arguments target_raster_path and only_these_greenspace_codes
\* of every call of _reclassify_greenspace_area: lines 600-610, 673-684 and
\* 740-750.  The calls of the other two modes do not pass the set.
GreenspaceAreaArgs(a) ==
    IF a.search_radius_mode = RADIUS_OPT_GREENSPACE
    THEN LET rows == LucodeToSearchRadii(a)
         IN [i \in 1..Len(rows) |->
                [target |-> GreenspacePixelsLucodePath(a, rows[i].lucode),
                 only_these_greenspace_codes |-> {rows[i].lucode}]]
    ELSE << [target |-> GreenspacePixelsPath(a),
             only_these_greenspace_codes |-> {}] >>

\* execute(), lines 309-1093
\* An unknown search_radius_mode reaches the else of line 551 and raises
\* ValueError; an unknown decay_function makes
\* kernel_creation_functions[decay_function] raise KeyError at line 566, in
\* the first round of the kernel loop, before its add_task.
Program(a) ==
    AlignmentSteps(a) \o PopGroupSteps(a)
        \o (IF a.search_radius_mode \notin RadiusModes
            THEN <<RaiseStep("ValueError")>>
            ELSE IF a.decay_function \notin KernelFunctions
            THEN <<RaiseStep("KeyError")>>
            ELSE KernelSteps(a) \o ModeSteps(a) \o <<CloseAndJoinStep>>)

----------------------------------------------------------------------------
(* The inputs of a run *)

\* search radii in meters: two rows may name the same radius or different ones
Radii == {100, 200}

Suffixes == {"", "_s"}

\* n_workers: -1 runs every task inside add_task, 2 uses worker processes
WorkerOptions == {-1, 2}

\* rows of the attribute table, lucode = row number
\* (the radius of a row that is not greenspace is never read: it is 100)
AttrTables ==
    {t \in [1..MaxLucodes -> [greenspace: {0, 1}, search_radius_m: Radii]]:
        /\ \E c \in 1..MaxLucodes: t[c].greenspace = 1
        /\ \A c \in 1..MaxLucodes:
               t[c].greenspace = 0 => t[c].search_radius_m = 100}

DefaultAttrTable ==
    [c \in 1..MaxLucodes |-> [greenspace |-> 1, search_radius_m |-> 100]]

DefaultGroupRadii(n) == [g \in Range(SubSeq(PopFieldNames, 1, n)) |-> 100]

MakeArgs(mode, radius, table, group_radii, n, aggregate, workers, suffix) ==
    [search_radius_mode |-> mode, search_radius |-> radius,
     attr_table |-> table, pop_group_radii |-> group_radii,
     num_groups |-> n, aggregate_by_pop_group |-> aggregate,
     n_workers |-> workers, suffix |-> suffix,
     decay_function |-> "dichotomy"]

\* the population groups of a run: in the uniform and greenspace modes the
\* pop_ fields are read only when aggregate_by_pop_group is set
GroupOptions == {<<n, agg>> \in (0..MaxGroups) \X BOOLEAN: agg \/ n = 0}

UniformArgsAll ==
    {MakeArgs(RADIUS_OPT_UNIFORM, r, DefaultAttrTable,
              DefaultGroupRadii(o[1]), o[1], o[2], w, s):
        r \in Radii, o \in GroupOptions,
        w \in WorkerOptions, s \in Suffixes}

GreenspaceArgsAll ==
    {MakeArgs(RADIUS_OPT_GREENSPACE, 100, t, DefaultGroupRadii(o[1]),
              o[1], o[2], w, s):
        t \in AttrTables, o \in GroupOptions,
        w \in WorkerOptions, s \in Suffixes}

PopGroupArgsAll ==
    UNION {{MakeArgs(RADIUS_OPT_POP_GROUP, 100, DefaultAttrTable, gr,
                     n, agg, w, s):
               gr \in [Range(SubSeq(PopFieldNames, 1, n)) -> Radii],
               agg \in BOOLEAN, w \in WorkerOptions, s \in Suffixes}:
           n \in 1..MaxGroups}

\* Every run is explored with synchronous execution.  The schedules of the
\* worker processes are explored for the empty suffix (it has no part in
\* scheduling) and up to ParallelGroups population groups; with aggregation
\* in the greenspace mode for the default table, and in the population-group
\* mode without aggregation (there it changes no graph call).
Explored(a) ==
    \/ a.n_workers = -1
    \/ /\ a.suffix = ""
       /\ a.num_groups <= ParallelGroups
       /\ a.search_radius_mode = RADIUS_OPT_GREENSPACE
          /\ a.aggregate_by_pop_group => a.attr_table = DefaultAttrTable
       /\ a.search_radius_mode = RADIUS_OPT_POP_GROUP
          => ~a.aggregate_by_pop_group

UniformArgs == {a \in UniformArgsAll: Explored(a)}
GreenspaceArgs == {a \in GreenspaceArgsAll: Explored(a)}
PopGroupArgs == {a \in PopGroupArgsAll: Explored(a)}

ArgsSet == UniformArgs \cup GreenspaceArgs \cup PopGroupArgs

\* runs whose search_radius_mode or decay_function is not a known option
InvalidArgs ==
    {[a EXCEPT !.search_radius_mode = "radius_unknown"]: a \in ArgsSet}
    \cup {[a EXCEPT !.decay_function = "unknown"]: a \in ArgsSet}

----------------------------------------------------------------------------
(* execute(): one graph call per step *)

\* The task held by variable var when the call at position i is made
LatestBefore(P, i, var) ==
    CHOOSE j \in 1..(i - 1):
        /\ P[j].op = "add" /\ P[j].var = var
        /\ \A k \in (j + 1)..(i - 1): ~(P[k].op = "add" /\ P[k].var = var)

\* dependent_task_list holds Task objects: the ids of the tasks named
ResolveDeps(P) ==
    [i \in 1..Len(P) |->
        [P[i] EXCEPT !.deps = {LatestBefore(P, i, v): v \in P[i].deps}]]

\* the graph calls of every run: a run's calls are fixed by its args
\* (@@ makes the table explicit, so that it is built once)
ProgramOf ==
    [a \in ArgsSet \cup InvalidArgs |-> ResolveDeps(Program(a))] @@ <<>>

NoResult == [op |-> "none"]

Init ==
    /\ args \in ArgsSet
    /\ pc = 1
    /\ status = [i \in 1..Len(ProgramOf[args]) |-> "none"]
    /\ complete = InputPaths
    /\ premature = {}
    /\ result = NoResult

\* the graph calls execute() makes in this run, in program order
program == ProgramOf[args]

Synchronous == args.n_workers = -1

\* the tasks added to the graph so far (ids are positions in program)
Tasks == {i \in 1..Len(status): status[i] # "none"}

AllDone == \A i \in Tasks: status[i] = "done"

Finished == pc > Len(status)

\* graph.add_task(...): with n_workers = -1 the call returns only after the
\* task has run, so the next call waits for it.
AddTask ==
    /\ ~Finished
    /\ program[pc].op = "add"
    /\ Synchronous => AllDone
    /\ status' = [status EXCEPT ![pc] = "pending"]
    /\ pc' = pc + 1
    /\ UNCHANGED <<args, complete, premature, result>>

\* aoi_reprojection_task.join(), line 463
JoinTask ==
    /\ ~Finished
    /\ LET step == program[pc]
       IN /\ step.op = "join"
          /\ \A d \in step.deps: status[d] = "done"
    /\ pc' = pc + 1
    /\ UNCHANGED <<args, status, complete, premature, result>>

\* execute() opens the reprojected vector and reads it (lines 464-469, 489);
\* with n_workers = -1 every add_task before it has returned
ReadVector ==
    /\ ~Finished
    /\ program[pc].op = "read"
    /\ Synchronous => AllDone
    /\ premature' = premature \cup
                      {<<pc, p>>: p \in program[pc].reads \ complete}
    /\ pc' = pc + 1
    /\ UNCHANGED <<args, status, complete, result>>

\* the mutation: execute() returns without waiting for the tasks
CloseNoJoin ==
    /\ ~Finished
    /\ program[pc].op = "close_join"
    /\ pc' = pc + 1
    /\ UNCHANGED <<args, status, complete, premature, result>>

\* graph.close(); graph.join(), lines 1091-1092
CloseAndJoin ==
    /\ ~Finished
    /\ program[pc].op = "close_join"
    /\ AllDone
    /\ pc' = pc + 1
    /\ UNCHANGED <<args, status, complete, premature, result>>

----------------------------------------------------------------------------
(* The task executor *)

\* execute() is waiting: inside a synchronous add_task, in a join, or done
Waiting ==
    \/ Synchronous
    \/ Finished
    \/ ~Finished /\ program[pc].op \in {"join", "close_join"}

\* A task becomes eligible once all its declared dependencies are done; a
\* worker (or add_task itself when synchronous) then runs it to the end.  The
\* files it reads are opened when it starts; its targets are complete when it
\* is done.
\* With worker processes add_task returns at once.  Adding a task neither
\* completes a file nor satisfies a dependency, so every pair (task started,
\* set of tasks done at that moment) that some schedule produces is also
\* produced by a schedule in which execute() first reaches its next wait:
\* those are the schedules explored.
RunTask(i) ==
    /\ status[i] = "pending"
    /\ Waiting
    /\ LET task == program[i]
       IN /\ \A d \in task.deps: status[d] = "done"
          /\ premature' = premature \cup
                           {<<i, p>>: p \in task.reads \ complete}
          /\ complete' = complete \cup task.targets
    /\ status' = [status EXCEPT ![i] = "done"]
    /\ UNCHANGED <<args, pc, result>>

Next ==
    \/ AddTask
    \/ JoinTask
    \/ ReadVector
    \/ CloseAndJoin
    \/ \E i \in 1..Len(status): RunTask(i)

Spec == Init /\ [][Next]_vars

----------------------------------------------------------------------------
(* execute() when tasks may raise.  A task that raises is failed for good: *)
(* the graph runs a task once.  No task that depends on it is run, and the *)
(* next graph call of execute() (add_task on a terminated graph, a join)   *)
(* raises; with n_workers = -1 that call is the add_task that ran the task. *)

\* the runs explored with failing tasks: one radius, the default table
FailArgs ==
    {a \in ArgsSet:
        /\ a.suffix = ""
        /\ a.num_groups <= 1
        /\ a.attr_table = DefaultAttrTable
        /\ a.search_radius = 100
        /\ \A g \in DOMAIN a.pop_group_radii: a.pop_group_radii[g] = 100}

InitFail ==
    /\ args \in FailArgs
    /\ pc = 1
    /\ status = [i \in 1..Len(ProgramOf[args]) |-> "none"]
    /\ complete = InputPaths
    /\ premature = {}
    /\ result = NoResult

SomeFailed == \E i \in 1..Len(status): status[i] = "failed"

\* a task that is eligible raises instead of finishing: its targets are not
\* written
FailTask(i) ==
    /\ status[i] = "pending"
    /\ Waiting
    /\ \A d \in program[i].deps: status[d] = "done"
    /\ status' = [status EXCEPT ![i] = "failed"]
    /\ UNCHANGED <<args, pc, complete, premature, result>>

\* the failure reaches execute(): its graph call raises and execute() is left
Abort ==
    /\ ~Finished
    /\ SomeFailed
    /\ Synchronous \/ program[pc].op \in {"add", "join", "close_join"}
    /\ pc' = Len(status) + 1
    /\ result' = [op |-> "raised"]
    /\ UNCHANGED <<args, status, complete, premature>>

NextFail ==
    \/ ~SomeFailed /\ AddTask
    \/ ~SomeFailed /\ JoinTask
    \/ ReadVector
    \/ CloseAndJoin
    \/ \E i \in 1..Len(status): RunTask(i)
    \/ \E i \in 1..Len(status): FailTask(i)
    \/ Abort

\* a worker that can run a task does, and execute() goes on when it can
SpecFail == InitFail /\ [][NextFail]_vars /\ WF_vars(NextFail)

----------------------------------------------------------------------------
(* execute() with an option it does not know *)

InitErr ==
    /\ args \in InvalidArgs
    /\ pc = 1
    /\ status = [i \in 1..Len(ProgramOf[args]) |-> "none"]
    /\ complete = InputPaths
    /\ premature = {}
    /\ result = NoResult

\* execute() is about to raise
Raising == ~Finished /\ program[pc].op = "raise"

\* the raise of line 554, or the KeyError of line 566: execute() is left;
\* with n_workers = -1 every add_task before it has returned
Raise ==
    /\ Raising
    /\ Synchronous => AllDone
    /\ pc' = pc + 1
    /\ UNCHANGED <<args, status, complete, premature, result>>

NextErr ==
    \/ AddTask
    \/ JoinTask
    \/ ReadVector
    \/ Raise
    \/ \E i \in 1..Len(status): RunTask(i)

SpecErr == InitErr /\ [][NextErr]_vars

----------------------------------------------------------------------------
(* Properties of the task graph *)

RECURSIVE Closure(_, _)
Closure(P, S) ==
    LET T == S \cup UNION {P[d].deps: d \in S}
    IN IF T = S THEN S ELSE Closure(P, T)

\* the tasks that are done before task i of program P may start
TransitiveDeps(P, i) == Closure(P, P[i].deps)

\* C1: every task that reads a file written by another task of the run has
\* that task among its (transitive) dependencies, and no task has started
\* before a file it reads was completely written.
C1_ReadsFollowProducers ==
    /\ LET P == program
       IN \A i \in Tasks: \A j \in Tasks \ {i}:
              P[i].reads \cap P[j].targets # {} => j \in TransitiveDeps(P, i)
    /\ premature = {}

\* C2: no two distinct tasks of a run declare the same output path.
C2_DistinctTargets ==
    LET P == program
    IN \A i, j \in Tasks: i # j => P[i].targets \cap P[j].targets = {}

\* a finished per-population-group run with two groups or more: every
\* per-group family of outputs has been declared
C2_Witness ==
    /\ Finished
    /\ args.search_radius_mode = RADIUS_OPT_POP_GROUP
    /\ args.num_groups >= 2
    /\ LET P == program
       IN Cardinality({i \in Tasks: P[i].fn = "_filter_population"}) >= 4

\* execute() has returned / has been left by the exception of a task
Returned == Finished /\ result = NoResult
Surfaced == Finished /\ result # NoResult

\* the task that writes the annotated vector
AggregateTask(P) ==
    CHOOSE i \in 1..Len(P): FileRegistry(args, "aois") \in P[i].targets

\* C24: the dependencies of every task were added before it, so the graph
\* has no cycle; a task that is done or failed stays so (it is run once);
\* execute() returns only when every task it added is done, and every run
\* ends by returning or by the failure of a task reaching the caller;
\* execute() never returns once a task has failed, so that a failure always
\* reaches the caller, and the vector is written only when every task it depends on, directly
\* or not, is done.
C24_CompletesOrSurfaces ==
    /\ [](\A i \in 1..Len(status): \A d \in program[i].deps: d < i)
    /\ [][\A i \in 1..Len(status):
              /\ status[i] \in {"done", "failed"} => status'[i] = status[i]
              /\ status[i] = "pending" => status'[i] # "none"]_vars
    /\ [](Returned =>
             \A i \in 1..Len(status):
                 program[i].op = "add" => status[i] = "done")
    /\ <>(Returned \/ Surfaced)
    /\ [](SomeFailed => ~Returned)
    /\ [](FileRegistry(args, "aois") \in complete =>
             LET P == program
             IN \A d \in TransitiveDeps(P, AggregateTask(P)):
                    status[d] = "done")

\* with worker processes, a task has failed after others were done, the
\* failure has reached the caller and there is no vector
C24_Witness ==
    /\ ~Synchronous
    /\ Surfaced
    /\ SomeFailed
    /\ \E i \in 1..Len(status): status[i] = "done"
    /\ FileRegistry(args, "aois") \notin complete

\* the reprojection task of program P
ReprojectionTask(P) ==
    CHOOSE i \in 1..Len(P): P[i].var = "aoi_reprojection_task"

\* C21: when population groups are needed, execute() has read the
\* reprojected vector (its fields, the overlap test, the proportions of a
\* group) only once the reprojection task was done, never before the file
\* was written, and no task of the population-group stage was added
\* before that.
C21_ReadsAfterJoin ==
    LET P == program
        done == status[ReprojectionTask(P)] = "done"
    IN /\ \A i \in 1..Len(P):
              (P[i].op = "read" /\ pc > i) => done
       /\ \A r \in premature: P[r[1]].op # "read"
       /\ \A i \in Tasks: P[i].stage = "groups" => done

\* with worker processes, execute() has read the proportions of a group
\* while the population alignment task was still pending
C21_Witness ==
    LET P == program
    IN /\ ~Synchronous
       /\ \E i \in 1..Len(P):
              P[i].var = "_read_field_from_vector" /\ pc > i
       /\ status[ReprojectionTask(P)] = "done"
       /\ \E j \in Tasks:
              /\ P[j].var = "population_alignment_task"
              /\ status[j] = "pending"

\* the tasks of program P that write path
Producers(P, path) == {i \in 1..Len(P): path \in P[i].targets}

\* path is written by the clamping convolver and by nothing else
Clamped(P, path) ==
    /\ Producers(P, path) # {}
    /\ \A i \in Producers(P, path):
           P[i].fn = "_convolve_and_set_lower_bound"

\* path is the sum of rasters that the clamping convolver wrote
SumOfClamped(P, path) ==
    /\ Producers(P, path) # {}
    /\ \A i \in Producers(P, path):
           /\ P[i].fn = "_sum_rasters"
           /\ P[i].reads # {}
           /\ \A q \in P[i].reads: Clamped(P, q)

\* the ratio tasks of program P
RatioTasks(P) ==
    {i \in 1..Len(P): P[i].fn = "_calculate_greenspace_population_ratio"}

\* C17: in every mode, the raster each ratio task takes as its decayed
\* population (its denominator) was written by the clamping convolver, or
\* is the sum of rasters the clamping convolver wrote; every ratio task of
\* the graph is one of these calls.
C17_DenominatorsAreClamped ==
    LET P == program
        ratio_args == RatioArgs(args)
    IN /\ \A k \in 1..Len(ratio_args):
              LET path == ratio_args[k].convolved_population
              IN Clamped(P, path) \/ SumOfClamped(P, path)
       /\ \A i \in RatioTasks(P):
              \E k \in 1..Len(ratio_args):
                  /\ P[i].targets = {ratio_args[k].target}
                  /\ P[i].reads = {ratio_args[k].greenspace_area,
                                   ratio_args[k].convolved_population}

\* the ratio task of a per-population-group run has run on the sum of the
\* decayed populations of two groups or more
C17_Witness ==
    /\ args.search_radius_mode = RADIUS_OPT_POP_GROUP
    /\ LET P == program
       IN \E i \in RatioTasks(P):
              /\ status[i] = "done"
              /\ \E q \in P[i].reads:
                     /\ SumOfClamped(P, q)
                     /\ \E j \in Producers(P, q):
                            Cardinality(P[j].reads) >= 2

\* path is written by one task of P, which is function fn reading reads
WrittenOnceBy(P, path, fn, reads) ==
    /\ Cardinality(Producers(P, path)) = 1
    /\ \A i \in Producers(P, path): P[i].fn = fn /\ P[i].reads = reads

\* C26: in the per-class mode, for every greenspace code c of radius r one
\* task writes the area of the greenspace of code c alone, one task divides
\* it by the population decayed with the kernel of r, one task convolves
\* that ratio with the kernel of r into the partial supply of c, and the
\* supply raster is the sum of the partial supplies, one per code and no
\* other.
C26_PartialSupplyPerCode ==
    args.search_radius_mode = RADIUS_OPT_GREENSPACE =>
        LET P == program
            rows == LucodeToSearchRadii(args)
            area_args == GreenspaceAreaArgs(args)
            Partial(k) == GreenspaceSupplyLucodePath(args, rows[k].lucode)
        IN /\ \A k \in 1..Len(rows):
                  LET c == rows[k].lucode
                      r == rows[k].search_radius_m
                      area == GreenspacePixelsLucodePath(args, c)
                      ratio == GreenspacePopulationRatioLucodePath(args, c)
                      decayed == DecayedPopulationPath(args, r)
                  IN /\ \E j \in 1..Len(area_args):
                            /\ area_args[j].target = area
                            /\ area_args[j].only_these_greenspace_codes = {c}
                     /\ WrittenOnceBy(P, area, "_reclassify_greenspace_area",
                            {FileRegistry(args, "aligned_lulc"),
                             LulcAttributeTable})
                     /\ WrittenOnceBy(P, decayed,
                            "_convolve_and_set_lower_bound",
                            {FileRegistry(args, "aligned_population"),
                             KernelPath(args, r)})
                     /\ WrittenOnceBy(P, ratio,
                            "_calculate_greenspace_population_ratio",
                            {area, decayed})
                     /\ WrittenOnceBy(P, Partial(k), "convolve_2d",
                            {ratio, KernelPath(args, r)})
           /\ WrittenOnceBy(P, FileRegistry(args, "greenspace_supply"),
                  "_sum_rasters", {Partial(k): k \in 1..Len(rows)})
           /\ Cardinality({Partial(k): k \in 1..Len(rows)}) = Len(rows)
           /\ Cardinality({i \in 1..Len(P): P[i].fn = "convolve_2d"})
                  = Len(rows)

\* a per-class run of two greenspace codes with different radii whose supply
\* raster has been summed
C26_Witness ==
    /\ args.search_radius_mode = RADIUS_OPT_GREENSPACE
    /\ LET rows == LucodeToSearchRadii(args)
       IN /\ Len(rows) = 2
          /\ rows[1].search_radius_m > rows[2].search_radius_m
    /\ FileRegistry(args, "greenspace_supply") \in complete

\* the wiring of the per-population-group ratio in program P of run a
GroupRatioWiring(P, a) ==
    LET G == Range(SplitPopulationFields(a))
        sum == SumOfDecayedPopulationPath(a)
        ratio == FileRegistry(a, "greenspace_population_ratio")
    IN /\ \A g \in G:
              /\ WrittenOnceBy(P, DecayedPopulationInGroupPath(a, g),
                     "_convolve_and_set_lower_bound",
                     {ProportionalPopulationPath(a, g),
                      KernelPath(a, a.pop_group_radii[g])})
              /\ WrittenOnceBy(P, GreenspaceSupplyToGroupPath(a, g),
                     "convolve_2d",
                     {ratio, KernelPath(a, a.pop_group_radii[g])})
       /\ WrittenOnceBy(P, sum, "_sum_rasters",
              {DecayedPopulationInGroupPath(a, g): g \in G})
       /\ WrittenOnceBy(P, ratio, "_calculate_greenspace_population_ratio",
              {GreenspacePixelsPath(a), sum})
       /\ Cardinality(RatioTasks(P)) = 1

\* C27: in the per-population-group mode one task per group convolves the
\* proportional population of the group with the kernel of the group's
\* radius, one task sums these rasters, the only ratio task divides by that
\* sum and the ratio is the signal of the supply convolution of every
\* group; and once the ratio is written, every one of the convolutions ran
\* on a proportional population that had been written.
C27_OneRatioFromSummedGroups ==
    args.search_radius_mode = RADIUS_OPT_POP_GROUP =>
        LET P == program
        IN /\ GroupRatioWiring(P, args)
           /\ FileRegistry(args, "greenspace_population_ratio") \in complete
                  => \A g \in Range(SplitPopulationFields(args)):
                         \A i \in Producers(P,
                                    DecayedPopulationInGroupPath(args, g)):
                             <<i, ProportionalPopulationPath(args, g)>>
                                 \notin premature

\* the radii whose kernel raster task i of P reads
KernelsRead(P, a, i) == {r \in SearchRadii(a): KernelPath(a, r) \in P[i].reads}

\* both rasters are written by tasks that read the kernel of radius r and of
\* no other radius
BothPassesUse(P, a, first, second, r) ==
    \A path \in {first, second}:
        /\ Producers(P, path) # {}
        /\ \A i \in Producers(P, path): KernelsRead(P, a, i) = {r}

\* C29: one kernel task is added for every distinct radius of the run and no
\* other, each writing the kernel raster of its radius; and the decayed
\* population and the supply of a unit (the run in the uniform mode, a
\* greenspace code, a population group) are convolved with the kernel raster
\* of the one radius of that unit.
C29_OneRadiusPerUnit ==
    LET P == program
        a == args
        kernel_tasks == {i \in 1..Len(P): P[i].fn = "_create_kernel_raster"}
    IN /\ Cardinality(kernel_tasks) = Cardinality(SearchRadii(a))
       /\ \A r \in SearchRadii(a):
              /\ Cardinality(Producers(P, KernelPath(a, r))) = 1
              /\ Producers(P, KernelPath(a, r)) \subseteq kernel_tasks
       /\ \A r1, r2 \in SearchRadii(a):
              r1 # r2 => KernelPath(a, r1) # KernelPath(a, r2)
       /\ a.search_radius_mode = RADIUS_OPT_UNIFORM =>
              BothPassesUse(P, a, DecayedPopulationPath(a, a.search_radius),
                            FileRegistry(a, "greenspace_supply"),
                            a.search_radius)
       /\ a.search_radius_mode = RADIUS_OPT_GREENSPACE =>
              LET rows == LucodeToSearchRadii(a)
              IN \A k \in 1..Len(rows):
                     BothPassesUse(P, a,
                         DecayedPopulationPath(a, rows[k].search_radius_m),
                         GreenspaceSupplyLucodePath(a, rows[k].lucode),
                         rows[k].search_radius_m)
       /\ a.search_radius_mode = RADIUS_OPT_POP_GROUP =>
              \A g \in Range(SplitPopulationFields(a)):
                  BothPassesUse(P, a, DecayedPopulationInGroupPath(a, g),
                                GreenspaceSupplyToGroupPath(a, g),
                                a.pop_group_radii[g])

\* a per-class run of two greenspace codes with the same radius, whose only
\* kernel and both partial supplies are written
C29_Witness ==
    /\ args.search_radius_mode = RADIUS_OPT_GREENSPACE
    /\ LET rows == LucodeToSearchRadii(args)
       IN /\ Len(rows) = 2
          /\ rows[1].search_radius_m = rows[2].search_radius_m
          /\ \A k \in 1..2:
                 GreenspaceSupplyLucodePath(args, rows[k].lucode) \in complete

\* the stage of the branch that belongs to a mode
BranchOf(mode) ==
    IF mode = RADIUS_OPT_UNIFORM THEN "uniform"
    ELSE IF mode = RADIUS_OPT_GREENSPACE THEN "class"
    ELSE "group"

\* the tasks added so far that belong to a stage
StageTasks(P, stage) == {i \in Tasks: P[i].stage = stage}

SingleRasterModes ==
    args.search_radius_mode \in {RADIUS_OPT_UNIFORM, RADIUS_OPT_GREENSPACE}

\* C19: at every moment of a run the tasks added by a mode branch all
\* belong to the branch of the run's mode, and the shared downstream stage
\* has tasks only in the uniform and the greenspace mode.  Once every call
\* has been made: the branch of the mode has tasks; the shared stage
\* (budget, supply-demand, under/over-supply, single-raster aggregation) is
\* there iff the mode is uniform or greenspace; the aggregation by
\* population group is there iff the mode is by population group; one
\* task writes the supply raster and one writes the vector.
C19_OneBranchPerRun ==
    LET P == program IN
    /\ \A b \in {"uniform", "class", "group"}:
           b # BranchOf(args.search_radius_mode) => StageTasks(P, b) = {}
    /\ ~SingleRasterModes => StageTasks(P, "shared") = {}
    /\ Finished =>
           /\ StageTasks(P, BranchOf(args.search_radius_mode)) # {}
           /\ SingleRasterModes <=>
                  /\ \E i \in StageTasks(P, "shared"):
                         P[i].fn = "_greenspace_budget_op"
                  /\ \E i \in StageTasks(P, "shared"):
                         P[i].fn = "_greenspace_supply_demand_op"
                  /\ \E i \in StageTasks(P, "shared"):
                         P[i].fn = "_filter_population"
                  /\ \E i \in StageTasks(P, "shared"):
                         P[i].fn
                         = "_supply_demand_vector_for_single_raster_modes"
           /\ ~SingleRasterModes <=>
                  \E i \in Tasks:
                      P[i].fn = "_supply_demand_vector_for_pop_groups"
           /\ Cardinality({i \in Tasks:
                  FileRegistry(args, "greenspace_supply")
                  \in P[i].targets}) = 1
           /\ Cardinality({i \in Tasks:
                  FileRegistry(args, "aois") \in P[i].targets}) = 1

\* a finished greenspace-mode run whose loop ran twice, before its shared
\* stage
C19_Witness ==
    LET P == program IN
    /\ Finished
    /\ args.search_radius_mode = RADIUS_OPT_GREENSPACE
    /\ Cardinality({i \in StageTasks(P, "class"):
           P[i].fn = "_reclassify_greenspace_area"}) >= 2
    /\ \A i \in StageTasks(P, "shared"): status[i] = "done"
    /\ StageTasks(P, "shared") # {}

\* C20: when search_radius_mode or decay_function is not a known option,
\* no task has been added to the graph (and so none has run) at the moment
\* execute() raises.
C20_RaisesBeforeGraphConstruction ==
    Raising => Tasks = {}

----------------------------------------------------------------------------
(* Pixel values.  A raster block is a sequence of pixel values.  Values are *)
(* integers; the float32 nodata sentinel (the most negative float32) is     *)
(* stood for by an integer below every value a raster holds.                *)

NumPixels == 2      \* pixels of a raster block
MaxRasters == 3     \* rasters handed to one sum
PopUnit == 2        \* population values count 1/PopUnit persons: 1.0 is PopUnit
WeightUnit == 10    \* weights count 1/WeightUnit: 0.3 is 3

FLOAT32_NODATA == -1000000

Blocks(V) == [1..NumPixels -> V]

\* numpy.isclose(a, b) for the model's values: with rtol 1e-5 and atol 1e-8
\* two distinct integers of magnitude up to |FLOAT32_NODATA| are never close
IsClose(a, b) == a = b

\* utils.array_equals_nodata(array, nodata)
ArrayEqualsNodata(v, nodata) == IsClose(v, nodata)

----------------------------------------------------------------------------
(* _weighted_sum, lines 1166-1202 *)

Min(x, y) == IF x <= y THEN x ELSE y

\* int(len(args)/2 + 1) and int(len(args)/2)
HalfPlusOne(n) == n \div 2 + 1
Half(n) == n \div 2

\* _weight_and_sum(*args): the loop runs over
\* zip(pixel_arrays, weight_arrays, nodata_list); target[valid] += array[valid]
WeightAndSum(arrays, nodata_list) ==
    LET n == Len(arrays)
        pixel_arrays == SubSeq(arrays, 1, Min(HalfPlusOne(n), n))
        weight_arrays == SubSeq(arrays, Half(n) + 1, n)
        zipped == Min(Len(pixel_arrays),
                      Min(Len(weight_arrays), Len(nodata_list)))
        valid(k, i) == ~ArrayEqualsNodata(pixel_arrays[k][i], nodata_list[k])
        RECURSIVE Acc(_, _)
        Acc(k, i) ==
            IF k = 0 THEN 0
            ELSE Acc(k - 1, i) + (IF valid(k, i) THEN pixel_arrays[k][i] ELSE 0)
        touched(i) == \E k \in 1..zipped: valid(k, i)
    IN [i \in 1..Len(arrays[1]) |->
           IF touched(i) THEN Acc(zipped, i) ELSE FLOAT32_NODATA]

\* raster_calculator is handed the value rasters only (line 1201)
WeightedSum(raster_list, weight_list) ==
    WeightAndSum(raster_list, [k \in 1..Len(raster_list) |-> FLOAT32_NODATA])

----------------------------------------------------------------------------
(* _filter_population, _greenspace_budget_op, _greenspace_supply_demand_op *)

FilterOpInclusive(op, x, y) == IF op = "less" THEN x <= y ELSE x > y

\* numpy.less / numpy.greater
FilterOp(op, x, y) == IF op = "less" THEN x < y ELSE x > y

\* lines 1379-1409
FilterPopulation(population, greenspace_budget, numpy_filter_op) ==
    [i \in 1..Len(population) |->
        IF ~IsClose(greenspace_budget[i], FLOAT32_NODATA)
           /\ ~IsClose(population[i], FLOAT32_NODATA)
        THEN (IF FilterOp(numpy_filter_op, greenspace_budget[i], 0)
              THEN population[i] ELSE 0)
        ELSE FLOAT32_NODATA]

GreenspaceBudgetOpNoMask(greenspace_supply, greenspace_demand) ==
    [i \in 1..Len(greenspace_supply) |->
        greenspace_supply[i] - greenspace_demand]

\* lines 1613-1633
GreenspaceBudgetOp(greenspace_supply, greenspace_demand) ==
    [i \in 1..Len(greenspace_supply) |->
        IF ~IsClose(greenspace_supply[i], FLOAT32_NODATA)
        THEN greenspace_supply[i] - greenspace_demand
        ELSE FLOAT32_NODATA]

\* lines 1636-1661
GreenspaceSupplyDemandOp(greenspace_budget, population) ==
    [i \in 1..Len(greenspace_budget) |->
        IF ~IsClose(greenspace_budget[i], FLOAT32_NODATA)
           /\ ~IsClose(population[i], FLOAT32_NODATA)
        THEN greenspace_budget[i] * population[i]
        ELSE FLOAT32_NODATA]

----------------------------------------------------------------------------
(* _greenspace_population_ratio, lines 1687-1753 *)

\* greenspace_area / convolved_population, the population counting 1/PopUnit
Divide(area, population) == (area * PopUnit) \div population

PopulationCloseToZeroExact(p) == p <= 0

\* population_close_to_zero = (convolved_population <= 1.0), line 1739
PopulationCloseToZero(p) == p <= PopUnit

NonGreenspaceValueKept(v) == v

\* out_array[~greenspace_pixels] = 0, line 1742
NonGreenspaceValue(v) == 0

GreenspacePopulationRatio(greenspace_area, convolved_population, greenspace_nodata, population_nodata) ==
    LET I == 1..Len(greenspace_area)
        out0 == [i \in I |-> FLOAT32_NODATA]
        greenspace_pixels == [i \in I |-> ~IsClose(greenspace_area[i], 0)]
        valid_pixels ==
            [i \in I |->
                /\ convolved_population[i] > 0
                /\ greenspace_pixels[i]
                /\ ~ArrayEqualsNodata(convolved_population[i],
                                      population_nodata)
                /\ ~ArrayEqualsNodata(greenspace_area[i], greenspace_nodata)]
        population_close_to_zero ==
            [i \in I |-> PopulationCloseToZero(convolved_population[i])]
        out1 == [i \in I |-> IF population_close_to_zero[i]
                             THEN greenspace_area[i] ELSE out0[i]]
        out2 == [i \in I |-> IF ~greenspace_pixels[i]
                             THEN NonGreenspaceValue(out1[i]) ELSE out1[i]]
        valid_pixels_with_population ==
            [i \in I |-> valid_pixels[i] /\ ~population_close_to_zero[i]]
        out3 == [i \in I |->
                    IF valid_pixels_with_population[i]
                    THEN Divide(greenspace_area[i], convolved_population[i])
                    ELSE out2[i]]
    IN [i \in I |-> IF valid_pixels[i] /\ out3[i] < 0 THEN 0 ELSE out3[i]]

----------------------------------------------------------------------------
(* Decay kernels, lines 1964-2058.  A radius is a number of 1/RDen pixels; *)
(* a distance is held as its square, dy*dy + dx*dx, which is an integer;   *)
(* kernel values are fixed-point numbers counting 1/FP.                    *)

MaxRn == 4          \* radii are 0, 1/RDen .. MaxRn/RDen pixels
RDen == 2
FP == 1000

\* numpy's inf, the result of 0.0 ** beta for a negative beta
Infinity == 1000000000

\* numpy's nan, the result of 0.0 / 0
NaN == -1

Betas == {-1, -2}

\* pixel_radius = math.ceil(expected_distance), line 2077
PixelRadius(rn) == (rn + RDen - 1) \div RDen

\* numpy.hypot(*numpy.mgrid[-pixel_radius:pixel_radius + 1,
\*                          -pixel_radius:pixel_radius + 1]), squared, row-major
PixelDistFromCenter(pixel_radius) ==
    LET size == 2 * pixel_radius + 1
        dy(c) == ((c - 1) \div size) - pixel_radius
        dx(c) == ((c - 1) % size) - pixel_radius
    IN [c \in 1..(size * size) |-> dy(c) * dy(c) + dx(c) * dx(c)]

\* distance <= max_distance
WithinRadius(d2, rn) == d2 * RDen * RDen <= rn * rn

RECURSIVE NewtonSqrt(_, _)
NewtonSqrt(n, x) ==
    LET y == (x + n \div x) \div 2
    IN IF y >= x THEN x ELSE NewtonSqrt(n, y)

ISqrt(n) == IF n = 0 THEN 0 ELSE NewtonSqrt(n, n)

\* distance / max_distance
DistanceRatio(d2, rn) ==
    IF rn = 0 THEN (IF d2 = 0 THEN NaN ELSE Infinity)
    ELSE ISqrt(d2 * FP * FP * RDen * RDen) \div rn

\* (distance / max_distance) ** 2
DistanceRatioSquared(d2, rn) ==
    IF rn = 0 THEN (IF d2 = 0 THEN NaN ELSE Infinity)
    ELSE (d2 * RDen * RDen * FP) \div (rn * rn)

RECURSIVE ExpSeries(_, _, _)
ExpSeries(term, k, x) ==
    IF term = 0 THEN 0
    ELSE term + ExpSeries((term * x) \div (FP * k), k + 1, x)

\* numpy.exp(-x) for x >= 0, as 1 / (1 + x + x^2/2! + ...)
ExpNeg(x) ==
    IF x = NaN THEN NaN
    ELSE IF x = Infinity THEN 0
    ELSE (FP * FP) \div ExpSeries(FP, 1, x)

\* distance ** beta for a negative integer beta
Power(d2, beta) ==
    IF d2 = 0 THEN Infinity
    ELSE IF beta = -2 THEN FP \div d2
    ELSE (FP * FP) \div ISqrt(d2 * FP * FP)

Positions(mask) ==
    SelectSeq([c \in 1..Len(mask) |-> c], LAMBDA c: mask[c])

\* kernel[mask] = values, values an array of ndim dimensions: numpy takes a
\* 1-dimensional array of as many values as the mask selects, or of one
\* value, which it broadcasts; anything else raises ValueError
MaskAssign(kernel, mask, values, ndim) ==
    LET pos == Positions(mask)
        rank(c) == CHOOSE k \in 1..Len(pos): pos[k] = c
    IN IF ndim > 1
       THEN [ok |-> FALSE, kernel |-> <<>>]
       ELSE IF Len(values) = Len(pos)
       THEN [ok |-> TRUE,
             kernel |-> [c \in 1..Len(kernel) |->
                            IF mask[c] THEN values[rank(c)] ELSE kernel[c]]]
       ELSE IF Len(values) = 1
       THEN [ok |-> TRUE,
             kernel |-> [c \in 1..Len(kernel) |->
                            IF mask[c] THEN values[1] ELSE kernel[c]]]
       ELSE [ok |-> FALSE, kernel |-> <<>>]

Zeros(n) == [c \in 1..n |-> 0]

PixelsInRadius(distance, max_distance) ==
    [c \in 1..Len(distance) |-> WithinRadius(distance[c], max_distance)]

\* distance[pixels_in_radius]
Masked(distance, mask) ==
    LET pos == Positions(mask)
    IN [k \in 1..Len(pos) |-> distance[pos[k]]]

\* lines 1964-1979
KernelDichotomy(distance, max_distance) ==
    [ok |-> TRUE,
     kernel |-> [c \in 1..Len(distance) |->
                    IF WithinRadius(distance[c], max_distance)
                    THEN FP ELSE 0]]

\* lines 1982-1998: the right-hand side is computed on the whole
\* 2-dimensional array
KernelExponential(distance, max_distance) ==
    MaskAssign(Zeros(Len(distance)),
               PixelsInRadius(distance, max_distance),
               [c \in 1..Len(distance) |->
                   ExpNeg(DistanceRatio(distance[c], max_distance))], 2)

\* lines 2001-2017
KernelPower(distance, max_distance, beta) ==
    LET mask == PixelsInRadius(distance, max_distance)
        inside == Masked(distance, mask)
    IN MaskAssign(Zeros(Len(distance)), mask,
                  [k \in 1..Len(inside) |-> Power(inside[k], beta)], 1)

\* lines 2020-2038
KernelGaussian(distance, max_distance) ==
    LET mask == PixelsInRadius(distance, max_distance)
        inside == Masked(distance, mask)
        e_half == ExpNeg(FP \div 2)
        ratio2(k) == DistanceRatioSquared(inside[k], max_distance)
    IN MaskAssign(Zeros(Len(distance)), mask,
                  [k \in 1..Len(inside) |->
                      IF ratio2(k) = NaN THEN NaN
                      ELSE ((ExpNeg(ratio2(k) \div 2) - e_half) * FP)
                           \div (FP - e_half)], 1)

\* lines 2041-2058
KernelDensity(distance, max_distance) ==
    LET mask == PixelsInRadius(distance, max_distance)
        inside == Masked(distance, mask)
        ratio2(k) == DistanceRatioSquared(inside[k], max_distance)
    IN MaskAssign(Zeros(Len(distance)), mask,
                  [k \in 1..Len(inside) |->
                      IF ratio2(k) = NaN THEN NaN
                      ELSE (((3 * FP) \div 4) * (FP - ratio2(k))) \div FP], 1)

\* kernel_creation_functions[decay_function], lines 389-398
KernelFunction(decay_function, distance, max_distance, beta) ==
    CASE decay_function = "dichotomy" -> KernelDichotomy(distance, max_distance)
      [] decay_function = "exponential" ->
             KernelExponential(distance, max_distance)
      [] decay_function = "gaussian" -> KernelGaussian(distance, max_distance)
      [] decay_function = "density" -> KernelDensity(distance, max_distance)
      [] decay_function = "power" ->
             KernelPower(distance, max_distance, beta)

----------------------------------------------------------------------------
(* _square_off_pixels, lines 1805-1833.  Pixel sizes count half units, so  *)
(* that the mean of two whole sizes is a whole number; a raster's pixel    *)
(* sizes are whole units and never 0.                                       *)

MaxPixelSize == 3

PixelSizes == {2 * k: k \in 1..MaxPixelSize} \cup {-2 * k: k \in 1..MaxPixelSize}

Abs(x) == IF x < 0 THEN -x ELSE x

SignFactorPositive(pixel_dimension_size) == 1

\* sign_factor, lines 1826-1829
SignFactor(pixel_dimension_size) ==
    IF pixel_dimension_size < 0 THEN -1 ELSE 1

SquareOffPixels(pixel_width, pixel_height) ==
    IF Abs(pixel_width) = Abs(pixel_height)
    THEN <<pixel_width, pixel_height>>
    ELSE LET average_absolute_size ==
                 (Abs(pixel_width) + Abs(pixel_height)) \div 2
         IN <<average_absolute_size * SignFactor(pixel_width),
              average_absolute_size * SignFactor(pixel_height)>>

----------------------------------------------------------------------------
(* _resample_population_raster, lines 1836-1961.  Both rasters are         *)
(* projected in meters (the docstring requires it), so GetLinearUnits() is *)
(* 1; a density is the pair of a count and the area it is divided by: the  *)
(* factor 1e6 of square kilometers divides both pixel areas and cancels.   *)

\* a / b for a b that divides a, of either sign
Quotient(a, b) == IF b < 0 THEN (-a) \div (-b) ELSE a \div b

\* numpy.multiply(*pixel_size)
PixelArea(pixel_size) == pixel_size[1] * pixel_size[2]

PixelAreaAbs(pixel_size) == Abs(pixel_size[1] * pixel_size[2])

NoDensity == [n |-> FLOAT32_NODATA, d |-> 1]

\* _convert_population_to_density, lines 1889-1906
ConvertPopulationToDensity(population, population_nodata, population_pixel_area) ==
    [i \in 1..Len(population) |->
        IF ~IsClose(population[i], population_nodata)
        THEN [n |-> population[i], d |-> population_pixel_area]
        ELSE NoDensity]

\* pygeoprocessing.warp_raster(density_raster_path, target_pixel_size=
\* lulc_pixel_size, ..., resample_method='bilinear'), lines 1917-1924, onto
\* a grid of the same extent whose pixels subdivide the source pixels: each
\* source pixel is covered by n target pixels holding its density; nodata
\* stays nodata.
WarpRaster(density, source_pixel_size, target_pixel_size) ==
    LET n == Abs(PixelArea(source_pixel_size))
             \div Abs(PixelArea(target_pixel_size))
    IN [j \in 1..(n * Len(density)) |-> density[(j - 1) \div n + 1]]

\* _convert_density_to_population, lines 1933-1954
ConvertDensityToPopulation(density, target_pixel_area) ==
    [j \in 1..Len(density) |->
        IF ~IsClose(density[j].n, FLOAT32_NODATA)
        THEN Quotient(density[j].n * target_pixel_area, density[j].d)
        ELSE FLOAT32_NODATA]

\* The steps that can raise, in order.  tmp_working_dir is made by mkdtemp
\* (line 1876) and removed by the rmtree of the last line (1961), which a
\* step that raises never reaches.
ResampleSteps == <<"density", "warp", "population">>

ResamplePopulationRaster(population, source_pixel_size, lulc_pixel_size, raises) ==
    LET population_pixel_area == PixelArea(source_pixel_size)
        density == ConvertPopulationToDensity(
                       population, FLOAT32_NODATA, population_pixel_area)
        warped == WarpRaster(density, source_pixel_size, lulc_pixel_size)
        target_pixel_area == PixelArea(lulc_pixel_size)
    IN IF raises = "none"
       THEN [ok |-> TRUE,
             target |-> ConvertDensityToPopulation(warped, target_pixel_area),
             tmp_working_dir_exists |-> FALSE]
       ELSE [ok |-> FALSE, target |-> <<>>, tmp_working_dir_exists |-> TRUE]

----------------------------------------------------------------------------
(* _reclassify_greenspace_area, lines 1318-1376: the value map handed to   *)
(* utils.reclassify_raster.  only_these_greenspace_codes is a set; None    *)
(* and the empty set take the same branch of line 1348 and are both {}.    *)

\* the mutation: the restricting set is ignored
ValidGreenspaceCodesFlagOnly(attribute_table_dict, only_these_greenspace_codes) ==
    {lucode \in DOMAIN attribute_table_dict:
        attribute_table_dict[lucode].greenspace = 1}

ValidGreenspaceCodes(attribute_table_dict, only_these_greenspace_codes) ==
    IF only_these_greenspace_codes # {}
    THEN only_these_greenspace_codes
    ELSE {lucode \in DOMAIN attribute_table_dict:
             attribute_table_dict[lucode].greenspace = 1}

\* lulc_pixel_size is the pixel size of lulc_raster_path
GreenspaceAreaMap(attribute_table_dict, lulc_pixel_size, lulc_nodata, only_these_greenspace_codes) ==
    LET squared_pixel_area ==
            PixelAreaAbs(SquareOffPixels(lulc_pixel_size[1],
                                         lulc_pixel_size[2]))
        valid_greenspace_codes ==
            ValidGreenspaceCodes(attribute_table_dict,
                                 only_these_greenspace_codes)
    IN [lucode \in (DOMAIN attribute_table_dict) \cup {lulc_nodata} |->
           IF lucode = lulc_nodata THEN FLOAT32_NODATA
           ELSE IF lucode \in valid_greenspace_codes
                THEN squared_pixel_area
                ELSE 0]

----------------------------------------------------------------------------
(* _convolve_and_set_lower_bound, lines 1762-1802.  convolve_2d is called  *)
(* without target_nodata, so the raster it writes has the most negative    *)
(* float32 as its nodata value, which is FLOAT32_NODATA; a nodata value is *)
(* <<v>>, None is <<>>.                                                    *)

\* the mutation: every negative pixel is set to 0, nodata included
SetLowerBoundEverywhere(block, target_nodata) ==
    [ok |-> TRUE,
     block |-> [i \in 1..Len(block) |-> IF block[i] < 0 THEN 0 ELSE block[i]]]

\* lines 1790-1800; with no nodata value the mask is slice(None), and
\* (block < 0) & slice(None) raises TypeError
SetLowerBound(block, target_nodata) ==
    IF target_nodata = <<>>
    THEN [ok |-> FALSE, block |-> block]
    ELSE [ok |-> TRUE,
          block |-> [i \in 1..Len(block) |->
                        IF block[i] < 0 /\ ~IsClose(block[i], target_nodata[1])
                        THEN 0 ELSE block[i]]]

----------------------------------------------------------------------------
(* _reclassify_and_multiply, lines 1205-1260.  A proportion counts         *)
(* 1/WeightUnit, so the product counts 1/WeightUnit of a population value. *)

\* the largest uint32, stood for by an integer above every ID
UINT32_NODATA == 2147483647

\* pygeoprocessing.reclassify_raster((aois_raster_path, 1),
\* reclassification_map, target_raster_path, GDT_Float32, FLOAT32_NODATA),
\* lines 1229-1231: a nodata pixel becomes the target nodata.  The IDs of the
\* raster and the keys of the map are read from the same field of the same
\* vector (lines 474-491), so every ID is a key.
ReclassifyRaster(block, value_map, base_nodata, target_nodata) ==
    [i \in 1..Len(block) |->
        IF block[i] = base_nodata THEN target_nodata
        ELSE value_map[block[i]]]

\* the mutation: the nodata of the supply raster is not masked
ReclassifyAndMultiplyAnySupply(aois, reclassification_map, supply, supply_nodata) ==
    LET pop_group_proportion_block ==
            ReclassifyRaster(aois, reclassification_map, UINT32_NODATA,
                             FLOAT32_NODATA)
    IN [i \in 1..Len(supply) |->
           IF ~ArrayEqualsNodata(pop_group_proportion_block[i], FLOAT32_NODATA)
           THEN pop_group_proportion_block[i] * supply[i]
           ELSE FLOAT32_NODATA]

ReclassifyAndMultiply(aois, reclassification_map, supply, supply_nodata) ==
    LET pop_group_proportion_block ==
            ReclassifyRaster(aois, reclassification_map, UINT32_NODATA,
                             FLOAT32_NODATA)
        pop_group_nodata == FLOAT32_NODATA
        valid_mask ==
            [i \in 1..Len(supply) |->
                /\ ~ArrayEqualsNodata(pop_group_proportion_block[i],
                                      pop_group_nodata)
                /\ ~ArrayEqualsNodata(supply[i], supply_nodata)]
    IN [i \in 1..Len(supply) |->
           IF valid_mask[i]
           THEN pop_group_proportion_block[i] * supply[i]
           ELSE FLOAT32_NODATA]

----------------------------------------------------------------------------
(* The supply raster of the three modes, lines 628-641, 707-732, 826-941 *)

\* ndr._sum_rasters(raster_path_list, target_nodata, target_result_path):
\* the sum over the rasters of the pixels that are valid; a pixel is nodata
\* only where every raster is nodata
SumRasters(raster_list, target_nodata) ==
    LET valid(k, i) == ~ArrayEqualsNodata(raster_list[k][i], FLOAT32_NODATA)
        RECURSIVE Acc(_, _)
        Acc(k, i) ==
            IF k = 0 THEN 0
            ELSE Acc(k - 1, i) + (IF valid(k, i) THEN raster_list[k][i] ELSE 0)
    IN [i \in 1..Len(raster_list[1]) |->
           IF \E k \in 1..Len(raster_list): valid(k, i)
           THEN Acc(Len(raster_list), i) ELSE target_nodata]

\* greenspace_supply_task of the uniform mode, lines 628-641: convolved is
\* what convolve_2d makes of the ratio raster and the kernel
UniformSupply(convolved) ==
    SetLowerBound(convolved, <<FLOAT32_NODATA>>).block

\* lines 707-732: pygeoprocessing.convolve_2d per lucode, then _sum_rasters
GreenspaceSupply(partial_greenspace_supply) ==
    SumRasters(partial_greenspace_supply, FLOAT32_NODATA)

\* lines 826-941: pygeoprocessing.convolve_2d per group, then _weighted_sum
PopGroupSupply(greenspace_supply_by_group, pop_group_proportion) ==
    WeightedSum(greenspace_supply_by_group, pop_group_proportion)

----------------------------------------------------------------------------
(* The summary vector, lines 1412-1610.  pygeoprocessing.zonal_statistics  *)
(* gives every feature a sum and a count of valid pixels; the sum of a     *)
(* feature without a valid pixel is the Python float 0.0, any other sum is *)
(* a numpy float.  A quotient of floats is the pair of its terms.          *)

MaxFeatures == 2

\* the FIDs of the features of the reprojected vector
FeatureIds == 1..MaxFeatures

\* a / b raises ZeroDivisionError when a is a Python float and b is the
\* Python float 0.0; with a numpy float on either side it is inf or nan
Raises(a, b) == a.count = 0 /\ b.count = 0

TrueDivide(a, b) == [n |-> a.sum, d |-> b.sum]

\* lines 1554-1570, the fields of one feature
SingleRasterStats(fid, budget_stats, population_stats, undersupplied_stats, oversupplied_stats, group_proportions) ==
    [f \in {"SUP_DEMadm_cap"} |->
        TrueDivide(budget_stats[fid], population_stats[fid])]
    @@ [f \in {"Pund_adm"} |-> undersupplied_stats[fid].sum]
    @@ [f \in {"Povr_adm"} |-> oversupplied_stats[fid].sum]
    @@ [f \in {"Pund_adm_" \o TrimPop(g): g \in DOMAIN group_proportions} |->
           LET g == CHOOSE g \in DOMAIN group_proportions:
                        f = "Pund_adm_" \o TrimPop(g)
           IN undersupplied_stats[fid].sum * group_proportions[g][fid]]
    @@ [f \in {"Povr_adm_" \o TrimPop(g): g \in DOMAIN group_proportions} |->
           LET g == CHOOSE g \in DOMAIN group_proportions:
                        f = "Povr_adm_" \o TrimPop(g)
           IN oversupplied_stats[fid].sum * group_proportions[g][fid]]

\* _write_supply_demand_vector, lines 1575-1610: the fields are those of
\* the first feature of feature_attrs; every feature of the copy is given
\* the values of its FID
WriteSupplyDemandVector(fids, feature_attrs) ==
    [fields |-> DOMAIN feature_attrs[CHOOSE fid \in DOMAIN feature_attrs:
                                        TRUE],
     records |-> [fid \in fids |-> feature_attrs[fid]]]

NoVector == [fields |-> {}, records |-> <<>>]

\* _supply_demand_vector_for_single_raster_modes, lines 1502-1572;
\* group_proportions is empty unless include_pop_groups
SupplyDemandVectorForSingleRasterModes(fids, budget_stats, population_stats, undersupplied_stats, oversupplied_stats, group_proportions) ==
    IF \E fid \in fids: Raises(budget_stats[fid], population_stats[fid])
    THEN [ok |-> FALSE, vector |-> NoVector]
    ELSE [ok |-> TRUE,
          vector |-> WriteSupplyDemandVector(
              fids,
              [fid \in fids |->
                  SingleRasterStats(fid, budget_stats, population_stats,
                                    undersupplied_stats, oversupplied_stats,
                                    group_proportions)])]

\* sums[key][feature_id] after the loop over the groups, lines 1455-1486:
\* only 'supply-demand' and 'population' are ever added to
RECURSIVE SumOverGroups(_, _, _)
SumOverGroups(stats, groups, fid) ==
    IF groups = <<>> THEN [sum |-> 0, count |-> 0]
    ELSE LET rest == SumOverGroups(stats, Tail(groups), fid)
             first == stats[Head(groups)][fid]
         IN [sum |-> first.sum + rest.sum, count |-> first.count + rest.count]

\* collections.defaultdict(float): the value of a key never written
DefaultFloat == 0

\* lines 1476-1494, the fields of one feature
PopGroupStats(fid, groups, sup_dem_stats, pop_stats, undersupply_stats, oversupply_stats) ==
    [f \in {"SUP_DEMadm_cap"} |->
        TrueDivide(SumOverGroups(sup_dem_stats, groups, fid),
                   SumOverGroups(pop_stats, groups, fid))]
    @@ [f \in {"Pund_adm"} |-> DefaultFloat]
    @@ [f \in {"Povr_adm"} |-> DefaultFloat]
    @@ [f \in {"SUP_DEMadm_cap_" \o TrimPop(g): g \in Range(groups)} |->
           LET g == CHOOSE g \in Range(groups):
                        f = "SUP_DEMadm_cap_" \o TrimPop(g)
           IN TrueDivide(sup_dem_stats[g][fid], pop_stats[g][fid])]
    @@ [f \in {"Pund_adm_" \o TrimPop(g): g \in Range(groups)} |->
           LET g == CHOOSE g \in Range(groups): f = "Pund_adm_" \o TrimPop(g)
           IN undersupply_stats[g][fid].sum]
    @@ [f \in {"Povr_adm_" \o TrimPop(g): g \in Range(groups)} |->
           LET g == CHOOSE g \in Range(groups): f = "Povr_adm_" \o TrimPop(g)
           IN oversupply_stats[g][fid].sum]

\* _supply_demand_vector_for_pop_groups, lines 1412-1499
SupplyDemandVectorForPopGroups(fids, groups, sup_dem_stats, pop_stats, undersupply_stats, oversupply_stats) ==
    IF \E g \in Range(groups), fid \in fids:
           Raises(sup_dem_stats[g][fid], pop_stats[g][fid])
    THEN [ok |-> FALSE, vector |-> NoVector]
    ELSE [ok |-> TRUE,
          vector |-> WriteSupplyDemandVector(
              fids,
              [fid \in fids |->
                  PopGroupStats(fid, groups, sup_dem_stats, pop_stats,
                                undersupply_stats, oversupply_stats)])]

----------------------------------------------------------------------------
(* The greenspace area raster, lines 1365-1376.  utils.reclassify_raster    *)
(* maps every pixel through the value map; a nodata pixel becomes the       *)
(* target nodata, and a code of the raster that is not a key of the map is  *)
(* a fatal error that leaves no raster.                                     *)

NoRaster == <<>>

UtilsReclassifyRaster(block, value_map, base_nodata, target_nodata) ==
    IF \E i \in 1..Len(block):
           block[i] # base_nodata /\ block[i] \notin DOMAIN value_map
    THEN [ok |-> FALSE, target |-> NoRaster]
    ELSE [ok |-> TRUE,
          target |-> [i \in 1..Len(block) |->
                         IF block[i] = base_nodata THEN target_nodata
                         ELSE value_map[block[i]]]]

\* the mutation: the restricting set is not handed on
ReclassifyGreenspaceAreaUnrestricted(lulc, attribute_table_dict, lulc_pixel_size, lulc_nodata, only_these_greenspace_codes) ==
    UtilsReclassifyRaster(
        lulc,
        GreenspaceAreaMap(attribute_table_dict, lulc_pixel_size, lulc_nodata,
                          {}),
        lulc_nodata, FLOAT32_NODATA)

\* _reclassify_greenspace_area, lines 1318-1376
ReclassifyGreenspaceArea(lulc, attribute_table_dict, lulc_pixel_size, lulc_nodata, only_these_greenspace_codes) ==
    UtilsReclassifyRaster(
        lulc,
        GreenspaceAreaMap(attribute_table_dict, lulc_pixel_size, lulc_nodata,
                          only_these_greenspace_codes),
        lulc_nodata, FLOAT32_NODATA)

----------------------------------------------------------------------------
(* The administrative units, lines 1130-1163, 1263-1316.  A layer is the    *)
(* sequence of its features in iteration order, a feature a record of its  *)
(* FID and its fields.                                                      *)

ID_FIELDNAME == "adm_unit_id"

\* enumerate(layer) of lines 1158-1160: the reprojection keeps the features
ReprojectAndIdentify(layer, id_fieldname) ==
    [k \in 1..Len(layer) |->
        [f \in DOMAIN layer[k] \cup {id_fieldname} |->
            IF f = id_fieldname THEN k - 1 ELSE layer[k][f]]]

\* the same, keyed by the FID whatever the key field
ReadFieldFromVectorByFid(layer, key_field, value_field) ==
    [key \in {layer[k].FID: k \in 1..Len(layer)} |->
        LET last == CHOOSE k \in 1..Len(layer):
                        /\ layer[k].FID = key
                        /\ \A j \in (k + 1)..Len(layer): layer[j].FID # key
        IN layer[last][value_field]]

\* attribute_map: a later feature with the same key overwrites
ReadFieldFromVector(layer, key_field, value_field) ==
    [key \in {layer[k][key_field]: k \in 1..Len(layer)} |->
        LET last == CHOOSE k \in 1..Len(layer):
                        /\ layer[k][key_field] = key
                        /\ \A j \in (k + 1)..Len(layer):
                               layer[j][key_field] # key
        IN layer[last][value_field]]

Max(S) == CHOOSE x \in S: \A y \in S: y <= x

\* covering[i] is the set of the positions in the layer of the features that
\* cover pixel i: the feature burned last is the one the pixel keeps
RasterizeAois(layer, covering, id_fieldname) ==
    [i \in 1..Len(covering) |->
        IF covering[i] = {} THEN UINT32_NODATA
        ELSE layer[Max(covering[i])][id_fieldname]]

----------------------------------------------------------------------------
(* The operators applied to bounded inputs *)

SumValues == {FLOAT32_NODATA, 10, 20}
\* the weight rasters hold 0.3 and 0.7 in turn
RasterWeight(k) == IF k % 2 = 1 THEN 3 ELSE 7
AreaValues == {FLOAT32_NODATA, 0, 50}
DecayedPopulationValues == {FLOAT32_NODATA, 0, 1, PopUnit, 2 * PopUnit}
PopulationValues == {FLOAT32_NODATA, 0, 3}
SupplyValues == {FLOAT32_NODATA, 0, 5, 20}
DemandValues == {5, 10}
BudgetValues == {FLOAT32_NODATA, -10, 0, 10}

InitOps ==
    /\ args = [search_radius_mode |-> "none"]
    /\ pc = 0
    /\ status = <<>>
    /\ complete = {}
    /\ premature = {}
    /\ result = NoResult

\* a weight raster holds one proportion at every pixel
ApplyWeightedSum ==
    \E n \in 1..MaxRasters:
        \E values \in [1..n -> Blocks(SumValues)]:
            LET weights == [k \in 1..n |->
                               [i \in 1..NumPixels |-> RasterWeight(k)]]
            IN result' = [op |-> "weighted_sum", values |-> values,
                          weights |-> weights,
                          out |-> WeightedSum(values, weights)]

ApplyRatio ==
    \E area \in Blocks(AreaValues), pop \in Blocks(DecayedPopulationValues):
        result' = [op |-> "ratio", area |-> area, population |-> pop,
                   out |-> GreenspacePopulationRatio(
                               area, pop, FLOAT32_NODATA, FLOAT32_NODATA)]

\* the budget task and the supply-demand task that reads its raster
ApplySupplyDemand ==
    \E supply \in Blocks(SupplyValues), demand \in DemandValues,
       pop \in Blocks(PopulationValues):
        LET budget == GreenspaceBudgetOp(supply, demand)
        IN result' = [op |-> "supply_demand", supply |-> supply,
                      demand |-> demand, budget |-> budget,
                      population |-> pop,
                      out |-> GreenspaceSupplyDemandOp(budget, pop)]

\* the two tasks made from one population and one budget raster
ApplyFilterPopulation ==
    \E pop \in Blocks(PopulationValues), budget \in Blocks(BudgetValues):
        result' = [op |-> "filter_population", population |-> pop,
                   budget |-> budget,
                   under |-> FilterPopulation(pop, budget, "less"),
                   over |-> FilterPopulation(pop, budget, "greater")]

\* the kernel function applied to the window _create_kernel_raster builds
\* _create_kernel_raster(kernel_function, expected_distance, kernel_filepath,
\* normalize=False), lines 2061-2133: the raster is created with
\* kernel_size * kernel_size cells; iterblocks yields one block (the window is
\* smaller than a 256 x 256 tile), the kernel function is applied to its
\* distances and the block written.  If the function raises, nothing is
\* written.
CreateKernelRaster(decay_function, expected_distance, beta) ==
    LET pixel_radius == PixelRadius(expected_distance)
        kernel_size == pixel_radius * 2 + 1
        pixel_dist_from_center == PixelDistFromCenter(pixel_radius)
        k == KernelFunction(decay_function, pixel_dist_from_center,
                            expected_distance, beta)
    IN [ok |-> k.ok, kernel_size |-> kernel_size,
        distance |-> pixel_dist_from_center,
        kernel |-> k.kernel,
        written |-> IF k.ok THEN k.kernel ELSE <<>>]

ApplyKernel ==
    \E f \in KernelFunctions, rn \in 0..MaxRn, beta \in Betas:
        LET r == CreateKernelRaster(f, rn, beta)
        IN result' = [op |-> "kernel", decay_function |-> f,
                      max_distance |-> rn, beta |-> beta,
                      distance |-> r.distance, ok |-> r.ok,
                      kernel |-> r.kernel, kernel_size |-> r.kernel_size,
                      written |-> r.written]

ApplySquareOffPixels ==
    \E w \in PixelSizes, h \in PixelSizes:
        result' = [op |-> "square_off_pixels", pixel_size |-> <<w, h>>,
                   out |-> SquareOffPixels(w, h)]

PopulationCounts == {FLOAT32_NODATA, 0, 100}

\* a population raster of 2 x 2 pixels, north-up or bottom-up
SourcePixelSizes == {<<2, -2>>, <<2, 2>>}

\* args['lulc_raster_path'] has pixels of a quarter of that area
LulcPixelSizes == {<<1, -1>>, <<1, 1>>}

ApplyResamplePopulation ==
    \E population \in Blocks(PopulationCounts),
       source_pixel_size \in SourcePixelSizes,
       lulc_pixel_size \in LulcPixelSizes,
       raises \in {"none"} \cup Range(ResampleSteps):
        LET r == ResamplePopulationRaster(
                     population, source_pixel_size,
                     SquareOffPixels(lulc_pixel_size[1], lulc_pixel_size[2]),
                     raises)
        IN result' = [op |-> "resample_population",
                      population |-> population,
                      source_pixel_size |-> source_pixel_size,
                      lulc_pixel_size |-> lulc_pixel_size,
                      raises |-> raises, ok |-> r.ok, target |-> r.target,
                      tmp_working_dir_exists |-> r.tmp_working_dir_exists]

\* nodata values of the land-cover raster: codes that are not in the table
LulcNodataValues == {0, 255}

\* file_registry['aligned_lulc'] has the squared-off pixels of line 413
ApplyReclassifyGreenspaceArea ==
    \E table \in AttrTables, w \in PixelSizes, h \in PixelSizes,
       lulc_nodata \in LulcNodataValues,
       only_these_greenspace_codes \in SUBSET (1..MaxLucodes):
        LET aligned_pixel_size == SquareOffPixels(w, h)
        IN result' = [op |-> "reclassify_greenspace_area",
                      attribute_table |-> table,
                      pixel_size |-> aligned_pixel_size,
                      lulc_nodata |-> lulc_nodata,
                      only_these_greenspace_codes |->
                          only_these_greenspace_codes,
                      value_map |-> GreenspaceAreaMap(
                          table, aligned_pixel_size, lulc_nodata,
                          only_these_greenspace_codes)]

\* what pygeoprocessing.convolve_2d writes for a population raster and a
\* kernel that is not normalized: nodata, sums of products, and the small
\* negative values the comment of lines 1785-1787 speaks of
ConvolvedValues == {FLOAT32_NODATA, -1, 0, 2 * PopUnit}

ApplyConvolveAndSetLowerBound ==
    \E convolved \in Blocks(ConvolvedValues):
        LET r == SetLowerBound(convolved, <<FLOAT32_NODATA>>)
        IN result' = [op |-> "convolve_and_set_lower_bound",
                      convolved |-> convolved, target_nodata |-> FLOAT32_NODATA,
                      ok |-> r.ok, target |-> r.block]

\* the IDs _reproject_and_identify gives the admin units
AoiIds == {0, 1}

\* proportions of a population group: 0, 0.3 and 1
Proportions == {0, 3, WeightUnit}

ApplyReclassifyAndMultiply ==
    \E aois \in Blocks(AoiIds \cup {UINT32_NODATA}),
       field_value_map \in [AoiIds -> Proportions],
       population \in Blocks(PopulationValues):
        result' = [op |-> "reclassify_and_multiply",
                   aois |-> aois, reclassification_map |-> field_value_map,
                   population |-> population,
                   target |-> ReclassifyAndMultiply(
                       aois, field_value_map, population, FLOAT32_NODATA)]

\* One greenspace class, or one population group of proportion 1, and one
\* radius: the three modes convolve the same ratio raster with the same
\* kernel; convolved is what convolve_2d writes.
ApplySupplyOfModes ==
    \E convolved \in Blocks(ConvolvedValues):
        result' = [op |-> "supply_of_modes", convolved |-> convolved,
                   uniform |-> UniformSupply(convolved),
                   class |-> GreenspaceSupply(<<convolved>>),
                   group |-> PopGroupSupply(
                       <<convolved>>,
                       <<[i \in 1..NumPixels |-> WeightUnit]>>)]

\* zonal statistics of a feature: no valid pixel, valid pixels that sum to
\* 0, valid pixels that sum to 4
PopulationStats ==
    {[sum |-> 0, count |-> 0], [sum |-> 0, count |-> 2],
     [sum |-> 4, count |-> 2]}

BudgetStats ==
    {[sum |-> 0, count |-> 0], [sum |-> -10, count |-> 2],
     [sum |-> 10, count |-> 2]}

UndersuppliedStats == {[sum |-> 0, count |-> 2], [sum |-> 2, count |-> 2]}

OversuppliedStats == {[sum |-> 1, count |-> 2]}

ApplySingleRasterVector ==
    \E budget_stats \in [FeatureIds -> BudgetStats],
       population_stats \in [FeatureIds -> PopulationStats],
       undersupplied_stats \in [FeatureIds -> UndersuppliedStats],
       oversupplied_stats \in [FeatureIds -> OversuppliedStats],
       include_pop_groups \in BOOLEAN:
        LET group_proportions ==
                IF include_pop_groups
                THEN [g \in {"pop_a"} |-> [fid \in FeatureIds |-> 3]]
                ELSE <<>>
            r == SupplyDemandVectorForSingleRasterModes(
                     FeatureIds, budget_stats, population_stats,
                     undersupplied_stats, oversupplied_stats,
                     group_proportions)
        IN result' = [op |-> "single_raster_vector",
                      budget_stats |-> budget_stats,
                      population_stats |-> population_stats,
                      undersupplied_stats |-> undersupplied_stats,
                      oversupplied_stats |-> oversupplied_stats,
                      include_pop_groups |-> include_pop_groups,
                      ok |-> r.ok, vector |-> r.vector]

\* the pop_ fields of the layer schema
VectorPopGroupFields == <<"pop_a", "pop_b">>

\* The supply-demand raster of a group is nodata where its population is.
ApplyPopGroupVector ==
    \E population \in [FeatureIds -> PopulationStats],
       undersupply_stats \in
           [Range(VectorPopGroupFields) -> [FeatureIds -> UndersuppliedStats]],
       oversupply_stats \in
           [Range(VectorPopGroupFields) -> [FeatureIds -> OversuppliedStats]]:
        LET groups == VectorPopGroupFields
            pop_stats == [g \in Range(groups) |-> population]
            sup_dem_stats ==
                [g \in Range(groups) |->
                    [fid \in FeatureIds |->
                        IF population[fid].count = 0
                        THEN [sum |-> 0, count |-> 0]
                        ELSE [sum |-> 10, count |-> 2]]]
            r == SupplyDemandVectorForPopGroups(
                     FeatureIds, groups, sup_dem_stats, pop_stats,
                     undersupply_stats, oversupply_stats)
        IN result' = [op |-> "pop_group_vector", groups |-> groups,
                      pop_stats |-> pop_stats,
                      undersupply_stats |-> undersupply_stats,
                      oversupply_stats |-> oversupply_stats,
                      ok |-> r.ok, vector |-> r.vector]

\* the layers of the administrative units: the FIDs grow along the layer
AoiLayers ==
    UNION {{layer \in [1..n -> [FID: 1..(MaxFeatures + 1),
                                pop_a: {0, WeightUnit}]]:
               \A k \in 1..(n - 1): layer[k].FID < layer[k + 1].FID}:
           n \in 0..MaxFeatures}

\* lines 440-452, 474-491: the reprojected vector, the map of a group and
\* the raster of the unit IDs over one pixel
ApplyIdentify ==
    \E base \in AoiLayers:
        LET layer == ReprojectAndIdentify(base, ID_FIELDNAME)
        IN \E covering \in [1..1 -> SUBSET (1..Len(layer))]:
            result' = [op |-> "identify", base |-> base, layer |-> layer,
                       field_value_map |->
                           ReadFieldFromVector(layer, ID_FIELDNAME, "pop_a"),
                       aois_ids |->
                           RasterizeAois(layer, covering, ID_FIELDNAME)]

\* the attribute tables, the radii left aside
FlagTables == {t \in AttrTables: \A c \in DOMAIN t: t[c].search_radius_m = 100}

\* a nodata value that is no code of the table, and one that is
AreaNodataValues == {1, 255}

\* the codes of the table, the nodata values and a code the table lacks
AlignedLulcValues == (1..(MaxLucodes + 1)) \cup AreaNodataValues

\* lines 669-684: one raster per greenspace code, next to the raster of
\* lines 600-610 that no set restricts
ApplyGreenspaceAreaPerCode ==
    \E table \in FlagTables, lulc \in Blocks(AlignedLulcValues),
       lulc_nodata \in AreaNodataValues, w \in PixelSizes:
        LET rows == LucodeToSearchRadii([attr_table |-> table])
            lucodes == {rows[k].lucode: k \in 1..Len(rows)}
            size == SquareOffPixels(w, -w)
        IN result' = [op |-> "greenspace_area_per_code",
                      attribute_table |-> table, lulc |-> lulc,
                      lulc_nodata |-> lulc_nodata, lucodes |-> lucodes,
                      total |-> ReclassifyGreenspaceArea(
                                    lulc, table, size, lulc_nodata, {}),
                      per_code |->
                          [c \in lucodes |->
                              ReclassifyGreenspaceArea(
                                  lulc, table, size, lulc_nodata, {c})]]

OpsUnchanged == UNCHANGED <<args, pc, status, complete, premature>>

\* one operator is applied to one input in a behaviour
Idle == result = NoResult

NextOps ==
    \/ Idle /\ ApplyWeightedSum /\ OpsUnchanged
    \/ Idle /\ ApplyRatio /\ OpsUnchanged
    \/ Idle /\ ApplySupplyDemand /\ OpsUnchanged
    \/ Idle /\ ApplyFilterPopulation /\ OpsUnchanged
    \/ Idle /\ ApplyKernel /\ OpsUnchanged
    \/ Idle /\ ApplySquareOffPixels /\ OpsUnchanged
    \/ Idle /\ ApplyResamplePopulation /\ OpsUnchanged
    \/ Idle /\ ApplyReclassifyGreenspaceArea /\ OpsUnchanged
    \/ Idle /\ ApplyConvolveAndSetLowerBound /\ OpsUnchanged
    \/ Idle /\ ApplyReclassifyAndMultiply /\ OpsUnchanged
    \/ Idle /\ ApplySupplyOfModes /\ OpsUnchanged
    \/ Idle /\ ApplySingleRasterVector /\ OpsUnchanged
    \/ Idle /\ ApplyPopGroupVector /\ OpsUnchanged
    \/ Idle /\ ApplyIdentify /\ OpsUnchanged
    \/ Idle /\ ApplyGreenspaceAreaPerCode /\ OpsUnchanged

SpecOps == InitOps /\ [][NextOps]_vars

----------------------------------------------------------------------------
(* Properties of the operators *)

Valid(v) == v # FLOAT32_NODATA

RECURSIVE WeightedTerms(_, _, _, _)
WeightedTerms(values, weights, k, i) ==
    IF k = 0 THEN 0
    ELSE WeightedTerms(values, weights, k - 1, i)
         + (IF Valid(values[k][i]) THEN values[k][i] * weights[k][i] ELSE 0)

\* C3: at every pixel valid in some value raster the weighted sum is the sum
\* of value * weight over the pairs whose value is valid (the output counts
\* units, the weights 1/WeightUnit); so two equal rasters weighted 0.3 and
\* 0.7 give back their common value.
C3_WeightedSumOfPairs ==
    result.op = "weighted_sum" =>
        \A i \in 1..NumPixels:
            (\E k \in 1..Len(result.values): Valid(result.values[k][i]))
            => result.out[i] * WeightUnit
               = WeightedTerms(result.values, result.weights,
                               Len(result.values), i)

\* C4: an output pixel of the sum is nodata if and only if the pixel is
\* nodata in every input value raster.
C4_NodataOnlyWhereAllNodata ==
    result.op = "weighted_sum" =>
        \A i \in 1..NumPixels:
            ~Valid(result.out[i])
            <=> \A k \in 1..Len(result.values): ~Valid(result.values[k][i])

\* C5: where the greenspace area is valid and non-zero and the decayed
\* population p has 0 < p <= 1, the ratio is the greenspace area itself.
C5_DegenerateDenominator ==
    result.op = "ratio" =>
        \A i \in 1..NumPixels:
            /\ Valid(result.area[i])
            /\ result.area[i] # 0
            /\ result.population[i] > 0
            /\ result.population[i] <= PopUnit
            => result.out[i] = result.area[i]

\* area 50 with p = 0.5 gives 50
C5_Witness ==
    /\ result.op = "ratio"
    /\ \E i \in 1..NumPixels:
           /\ result.area[i] = 50
           /\ result.population[i] = 1
           /\ result.population[i] < PopUnit
           /\ result.out[i] = 50

\* C6: where the greenspace area is nodata or the decayed population is
\* nodata, the ratio is nodata.
C6_RatioPropagatesNodata ==
    result.op = "ratio" =>
        \A i \in 1..NumPixels:
            ~Valid(result.area[i]) \/ ~Valid(result.population[i])
            => result.out[i] = FLOAT32_NODATA

\* C7: with both inputs valid, area 0 gives 0 and a non-zero area with
\* p > 1 gives area / p; no valid output pixel is negative.
C7_RatioValues ==
    result.op = "ratio" =>
        \A i \in 1..NumPixels:
            /\ Valid(result.area[i]) /\ Valid(result.population[i])
               => /\ result.area[i] = 0 => result.out[i] = 0
                  /\ result.area[i] # 0 /\ result.population[i] > PopUnit
                     => result.out[i] = Divide(result.area[i],
                                               result.population[i])
            /\ Valid(result.out[i]) => result.out[i] >= 0

C7_Witness ==
    /\ result.op = "ratio"
    /\ \E i, j \in 1..NumPixels:
           /\ result.area[i] = 0
           /\ result.population[i] = 2 * PopUnit
           /\ result.out[i] = 0
           /\ result.area[j] = 50
           /\ result.population[j] = 2 * PopUnit
           /\ result.out[j] = 25

\* C8: the '<' and '>' filtered populations are valid exactly where both
\* inputs are valid, are never both non-zero at a pixel, and with the
\* population of the pixels of budget 0 add up to the population.
C8_FilteredPopulationPartition ==
    result.op = "filter_population" =>
        \A i \in 1..NumPixels:
            LET both == Valid(result.population[i]) /\ Valid(result.budget[i])
            IN /\ Valid(result.under[i]) <=> both
               /\ Valid(result.over[i]) <=> both
               /\ both =>
                    /\ result.under[i] = 0 \/ result.over[i] = 0
                    /\ result.under[i] + result.over[i]
                       + (IF result.budget[i] = 0
                          THEN result.population[i] ELSE 0)
                       = result.population[i]

C8_Witness ==
    /\ result.op = "filter_population"
    /\ \E i, j \in 1..NumPixels:
           /\ result.budget[i] < 0 /\ Valid(result.budget[i])
           /\ result.population[i] = 3 /\ result.under[i] = 3
           /\ result.over[i] = 0
           /\ result.budget[j] = 0
           /\ result.population[j] = 3
           /\ result.under[j] = 0 /\ result.over[j] = 0

\* C9: the budget is supply - demand exactly where supply is valid and
\* nodata elsewhere; the supply-demand total is budget * population exactly
\* where budget and population are both valid and nodata elsewhere.
C9_BudgetAndSupplyDemand ==
    result.op = "supply_demand" =>
        \A i \in 1..NumPixels:
            /\ result.budget[i]
               = (IF Valid(result.supply[i])
                  THEN result.supply[i] - result.demand
                  ELSE FLOAT32_NODATA)
            /\ result.out[i]
               = (IF Valid(result.budget[i]) /\ Valid(result.population[i])
                  THEN result.budget[i] * result.population[i]
                  ELSE FLOAT32_NODATA)

C9_Witness ==
    /\ result.op = "supply_demand"
    /\ \E i, j \in 1..NumPixels:
           /\ ~Valid(result.supply[i]) /\ ~Valid(result.budget[i])
           /\ result.population[i] = 3 /\ ~Valid(result.out[i])
           /\ result.supply[j] = 20 /\ result.demand = 5
           /\ result.budget[j] = 15
           /\ result.population[j] = 3 /\ result.out[j] = 45

Center(distance) == (Len(distance) + 1) \div 2

\* C10: every decay function yields a kernel for every radius; the kernel is
\* 0 at every offset farther than the radius; an offset at exactly the
\* radius is inside (dichotomy is 1 there, exponential and power positive);
\* at the center dichotomy, exponential and gaussian are 1 and density 0.75.
C10_KernelValues ==
    result.op = "kernel" =>
        /\ result.ok
        /\ \A c \in 1..Len(result.distance):
               /\ ~WithinRadius(result.distance[c], result.max_distance)
                  => result.kernel[c] = 0
               /\ result.distance[c] * RDen * RDen
                  = result.max_distance * result.max_distance
                  => /\ result.decay_function = "dichotomy"
                        => result.kernel[c] = FP
                     /\ result.decay_function \in {"exponential", "power"}
                        => result.kernel[c] > 0
        /\ result.decay_function \in {"dichotomy", "exponential", "gaussian"}
           => result.kernel[Center(result.distance)] = FP
        /\ result.decay_function = "density"
           => result.kernel[Center(result.distance)] = (3 * FP) \div 4

\* f(d, R) of the decay function f at an offset within the radius R > 0
DecayValue(f, d2, rn, beta) ==
    CASE f = "dichotomy" -> FP
      [] f = "exponential" -> ExpNeg(DistanceRatio(d2, rn))
      [] f = "gaussian" ->
             ((ExpNeg(DistanceRatioSquared(d2, rn) \div 2) - ExpNeg(FP \div 2))
              * FP) \div (FP - ExpNeg(FP \div 2))
      [] f = "density" ->
             (((3 * FP) \div 4) * (FP - DistanceRatioSquared(d2, rn))) \div FP
      [] f = "power" -> Power(d2, beta)

\* C11: for each decay function and every radius R > 0, kernel synthesis
\* completes without error and writes a square raster of odd side
\* 2*ceil(R)+1 whose cells hold f(d, R) within the radius and 0 beyond it.
C11_KernelRasterWritten ==
    result.op = "kernel" /\ result.max_distance > 0 =>
        /\ result.ok
        /\ result.kernel_size = 2 * PixelRadius(result.max_distance) + 1
        /\ Len(result.written) = result.kernel_size * result.kernel_size
        /\ \A c \in 1..Len(result.written):
               result.written[c]
               = (IF WithinRadius(result.distance[c], result.max_distance)
                  THEN DecayValue(result.decay_function, result.distance[c],
                                  result.max_distance, result.beta)
                  ELSE 0)

Sign(x) == IF x < 0 THEN -1 ELSE IF x > 0 THEN 1 ELSE 0

\* C12: the normalizer returns (w', h') with |w'| = |h'| = (|w| + |h|) / 2,
\* each with the sign of its input; when |w| = |h| the pair is unchanged.
C12_SquareOffPixels ==
    result.op = "square_off_pixels" =>
        LET w == result.pixel_size[1]
            h == result.pixel_size[2]
        IN /\ 2 * Abs(result.out[1]) = Abs(w) + Abs(h)
           /\ Abs(result.out[2]) = Abs(result.out[1])
           /\ Sign(result.out[1]) = Sign(w)
           /\ Sign(result.out[2]) = Sign(h)
           /\ Abs(w) = Abs(h) => result.out = result.pixel_size

\* a 1 x -2 pixel becomes 1.5 x -1.5
C12_Witness ==
    /\ result.op = "square_off_pixels"
    /\ result.pixel_size = <<2, -4>>
    /\ result.out = <<3, -3>>

RECURSIVE SumValid(_, _)
SumValid(block, k) ==
    IF k = 0 THEN 0
    ELSE SumValid(block, k - 1) + (IF Valid(block[k]) THEN block[k] ELSE 0)

\* C13: resampling a population raster onto pixels of a quarter of the area
\* over the same extent keeps the total population, and the target is
\* nodata exactly over the source pixels that are nodata.
C13_ResamplePreservesPopulation ==
    result.op = "resample_population" /\ result.ok =>
        LET n == Len(result.target) \div Len(result.population)
        IN /\ SumValid(result.target, Len(result.target))
              = SumValid(result.population, Len(result.population))
           /\ \A j \in 1..Len(result.target):
                  Valid(result.target[j])
                  <=> Valid(result.population[(j - 1) \div n + 1])

\* C14: once the resampler has finished, by returning or by raising in any
\* of its steps, its temporary directory no longer exists.
C14_TemporaryDirectoryRemoved ==
    result.op = "resample_population" => ~result.tmp_working_dir_exists

\* the codes the classifier is told are greenspace: those of the restricting
\* set when one is given, those with greenspace flag 1 otherwise
Eligible(lucode) ==
    IF result.only_these_greenspace_codes # {}
    THEN lucode \in result.only_these_greenspace_codes
    ELSE result.attribute_table[lucode].greenspace = 1

C16_LowerBound ==
    result.op = "convolve_and_set_lower_bound" =>
        /\ result.ok
        /\ \A i \in 1..Len(result.convolved):
               IF result.convolved[i] = result.target_nodata
               THEN result.target[i] = result.target_nodata
               ELSE /\ result.target[i] >= 0
                    /\ result.convolved[i] < 0 => result.target[i] = 0
                    /\ result.convolved[i] >= 0
                       => result.target[i] = result.convolved[i]

\* a negative result next to a nodata pixel
C16_Witness ==
    /\ result.op = "convolve_and_set_lower_bound"
    /\ \E i, j \in 1..Len(result.convolved):
           /\ result.convolved[i] = -1 /\ result.target[i] = 0
           /\ result.convolved[j] = result.target_nodata
           /\ result.target[j] = result.target_nodata

\* C18: the population raster of a group holds, in every pixel, the
\* proportion of the pixel's admin unit times the total population where
\* the pixel lies in an admin unit and the population is valid, and nodata
\* where either is nodata.
C18_GroupPopulation ==
    result.op = "reclassify_and_multiply" =>
        \A i \in 1..Len(result.target):
            result.target[i]
            = (IF result.aois[i] # UINT32_NODATA /\ Valid(result.population[i])
               THEN result.reclassification_map[result.aois[i]]
                    * result.population[i]
               ELSE FLOAT32_NODATA)

\* a block with a pixel of a partly populated unit and a pixel where only
\* the population is nodata
C18_Witness ==
    /\ result.op = "reclassify_and_multiply"
    /\ \E i, j \in 1..Len(result.target):
           /\ result.aois[i] # UINT32_NODATA
           /\ result.reclassification_map[result.aois[i]] = 3
           /\ result.population[i] = 3
           /\ result.target[i] = 9
           /\ result.aois[j] # UINT32_NODATA
           /\ ~Valid(result.population[j])
           /\ result.target[j] = FLOAT32_NODATA

\* C22: with one greenspace class, or one population group of proportion
\* 1, and the radius of the uniform run, the supply raster of the
\* greenspace mode and the supply raster of the population-group mode both
\* equal the supply raster of the uniform mode, pixel by pixel.
C22_ModeEquivalence ==
    result.op = "supply_of_modes" =>
        /\ result.class = result.uniform
        /\ result.group = result.uniform

\* C23: in the uniform and the greenspace mode the aggregator writes one
\* record for every feature of the vector, found by its FID, with
\* SUP_DEMadm_cap = zonal sum of the supply-demand raster / zonal sum of the
\* population, Pund_adm and Povr_adm the zonal sums of the undersupplied
\* and the oversupplied population, and every feature has the same fields.
C23_SingleRasterRecords ==
    result.op = "single_raster_vector" =>
        /\ result.ok
        /\ DOMAIN result.vector.records = FeatureIds
        /\ \A fid \in FeatureIds:
               LET record == result.vector.records[fid]
               IN /\ DOMAIN record = result.vector.fields
                  /\ record["SUP_DEMadm_cap"]
                     = [n |-> result.budget_stats[fid].sum,
                        d |-> result.population_stats[fid].sum]
                  /\ record["Pund_adm"] = result.undersupplied_stats[fid].sum
                  /\ record["Povr_adm"] = result.oversupplied_stats[fid].sum

RECURSIVE SumOfFields(_, _, _)
SumOfFields(record, prefix, groups) ==
    IF groups = <<>> THEN 0
    ELSE record[prefix \o TrimPop(Head(groups))]
         + SumOfFields(record, prefix, Tail(groups))

\* C25: in the population-group mode the Pund_adm of every administrative
\* unit is the sum over the groups of its Pund_adm_<group>, and its
\* Povr_adm is the sum over the groups of its Povr_adm_<group>.
C25_CombinedUnderOver ==
    (result.op = "pop_group_vector" /\ result.ok) =>
        \A fid \in FeatureIds:
            LET record == result.vector.records[fid]
            IN /\ record["Pund_adm"]
                  = SumOfFields(record, "Pund_adm_", result.groups)
               /\ record["Povr_adm"]
                  = SumOfFields(record, "Povr_adm_", result.groups)

\* C28: the reprojected layer has the features of the source in the same
\* order, feature k of n (counting from 0) carries the ID k, so that the IDs
\* are pairwise distinct and are exactly 0..n-1, and the map of a group has
\* an entry for every ID burned into the raster of the unit IDs.
C28_UnitIds ==
    result.op = "identify" =>
        LET layer == result.layer
            n == Len(result.base)
        IN /\ Len(layer) = n
           /\ \A k \in 1..n:
                  /\ layer[k].FID = result.base[k].FID
                  /\ layer[k][ID_FIELDNAME] = k - 1
           /\ \A j, k \in 1..n:
                  j # k => layer[j][ID_FIELDNAME] # layer[k][ID_FIELDNAME]
           /\ {layer[k][ID_FIELDNAME]: k \in 1..n} = 0..(n - 1)
           /\ DOMAIN result.field_value_map = 0..(n - 1)
           /\ \A i \in 1..Len(result.aois_ids):
                  result.aois_ids[i] # UINT32_NODATA =>
                      result.aois_ids[i] \in DOMAIN result.field_value_map

\* two units whose FIDs are not 1 and 2, a pixel of the first one
C28_Witness ==
    /\ result.op = "identify"
    /\ Len(result.layer) = 2
    /\ result.base[2].FID = 3
    /\ result.aois_ids[1] = 0

\* the sum of f over the finite set S
SumOver(f, S) ==
    LET RECURSIVE Sum(_)
        Sum(T) == IF T = {} THEN 0
                  ELSE LET x == CHOOSE x \in T: TRUE
                       IN f[x] + Sum(T \ {x})
    IN Sum(S)

\* C30: in the per-class mode the area rasters of the greenspace codes are
\* written or fail together with the raster that no set restricts; when
\* they are written, each of them is nodata exactly at the nodata pixels of
\* the land cover, and at any other pixel at most one of them is not 0 and
\* their sum is the value of the unrestricted raster.
C30_PerCodeAreasPartition ==
    result.op = "greenspace_area_per_code" =>
        /\ \A c \in result.lucodes: result.per_code[c].ok = result.total.ok
        /\ result.total.ok =>
               \A i \in 1..Len(result.lulc):
                   LET at_i == [c \in result.lucodes |->
                                   result.per_code[c].target[i]]
                   IN IF result.lulc[i] = result.lulc_nodata
                      THEN /\ result.total.target[i] = FLOAT32_NODATA
                           /\ \A c \in result.lucodes:
                                  at_i[c] = FLOAT32_NODATA
                      ELSE /\ result.total.target[i] # FLOAT32_NODATA
                           /\ \A c \in result.lucodes:
                                  at_i[c] # FLOAT32_NODATA
                           /\ Cardinality({c \in result.lucodes:
                                               at_i[c] # 0}) <= 1
                           /\ SumOver(at_i, result.lucodes)
                                  = result.total.target[i]

\* two greenspace codes, a pixel of the second one next to a nodata pixel
C30_Witness ==
    /\ result.op = "greenspace_area_per_code"
    /\ result.total.ok
    /\ Cardinality(result.lucodes) >= 2
    /\ result.lulc[1] = 2
    /\ result.per_code[2].target[1] > 0
    /\ result.per_code[1].target[1] = 0
    /\ result.lulc[2] = result.lulc_nodata

====
